---- MODULE Spec2Model ----
(***************************************************************************)
(* Model of the erosion raster / tile pipeline of python-gee-service:      *)
(*   gee_service.py       GEEService.analyze_geometry_complexity           *)
(*   raster_generator.py  ErosionRasterGenerator.generate_geotiff,         *)
(*                        _download_tiled_image, _generate_from_samples    *)
(*   tile_generator.py    MapTileGenerator._generate_tiles_for_zoom,       *)
(*                        _render_tile, _create_geometry_mask,             *)
(*                        apply_erosion_colormap                           *)
(*   rusle_calculator.py  RUSLECalculator.compute_detailed_grid (the        *)
(*                        parallel sampling)                               *)
(* The specifications share the variables: SpecAnalyze (the complexity     *)
(* analysis as a function of its inputs), SpecRaster (generate_geotiff     *)
(* with the tiled download, the sampling fallback and the files of the     *)
(* output directory), SpecTiles (one zoom level of tile rendering),        *)
(* SpecColormap (apply_erosion_colormap on an array), SpecSamples (the     *)
(* array _generate_from_samples builds) and SpecGrid (the batches of       *)
(* compute_detailed_grid and the thread that collects them).               *)
(***************************************************************************)
EXTENDS Integers, Sequences, FiniteSets, TLC

VARIABLES
    \* ---- analyze_geometry_complexity
    coord_count,    \* count_coordinates(geojson)
    gee_area,       \* geometry.area().getInfo() / 1e6 in km2, or Failed
    approx_area,    \* bounding-box approximation in km2, or Failed
    complexity,     \* the returned dict, or NoneRec before the call
    \* ---- generate_geotiff
    pc,             \* position of the running call
    callNo,         \* number of the running call (calls are sequential)
    scale,          \* complexity['recommended']['rusle_scale']
    width_m,        \* width_deg  * meters_per_degree
    height_m,       \* height_deg * meters_per_degree
    grid,           \* [cols, rows] of _download_tiled_image
    cell,           \* index of the sub-tile at hand, row-major from 0
    attempt,        \* attempt number of the retry loop (1..max_retries)
    attempts_log,   \* outcomes of the HTTP requests of the sub-tile at hand
    sleeps,         \* seconds of the time.sleep calls of the retry loop at hand
    requested,      \* sub-tiles an HTTP request was issued for
    tile_paths,     \* sub-tiles downloaded into the temporary directory
    tiled_error,    \* exception that left _download_tiled_image, or None
    tiled_wrote,    \* the tiled path opened the output path for writing
    fallback_calls, \* invocations of _generate_from_samples in this call
    tile_count,     \* local of generate_geotiff
    tiling_error,   \* local of generate_geotiff
    tif,            \* erosion.tif in the output directory
    npy,            \* erosion.npy sidecar in the output directory
    metadata,       \* metadata returned by the call, or None
    \* ---- _generate_tiles_for_zoom
    tpc,            \* position of the zoom-level loop
    geometry_json,  \* projected clipping geometry, or NoneRec
    data_bounds,    \* [west, east] of the raster, Web Mercator
    tile_keys,      \* tile keys still to render
    last_tile,      \* tile_image of the tile at hand: what _render_tile computed
    written,        \* tile keys a PNG was written for
    tiles_generated,\* tile_count of _generate_tiles_for_zoom
    \* ---- apply_erosion_colormap
    cm_data,        \* the array handed to apply_erosion_colormap
    cm_colored,     \* the RGBA array it returns, <<>> before the call
    \* ---- _generate_from_samples
    samples,        \* bounds and the features sampleRegions(...).getInfo() returns
    sampled_raster, \* data and bounds handed to _numpy_to_geotiff, or NoneRec
    \* ---- compute_detailed_grid, the parallel sampling
    gpc,            \* position of the calling thread
    batch_status,   \* per submitted batch: state of its future
    all_samples,    \* batches whose features were added to all_samples
    \* ---- concurrent generation runs (Celery workers)
    run_args,       \* per run: area_type, area_id, year, end_year
    run_pc,         \* per run: position in generate_geotiff / generate_tiles
    run_open,       \* per run: the output file it has open for writing
    run_keys,       \* per run: tile keys of generate_tiles still to write
    \* ---- rusle_config.py, RUSLECalculator.__init__
    heap,           \* the dicts and lists of the interpreter, by object id
    configs,        \* RUSLEConfig instances built so far
    calculators,    \* RUSLECalculator instances built so far
    snapshots,      \* dicts returned by to_dict / config_snapshot
    \* ---- _load_raster_data_webmercator
    src_raster,     \* data and transform when the file has been read
    loaded,         \* the returned data, transform and bounds, or NoneRec
    \* ---- generate_tiles
    tiles_from,     \* the file generate_tiles loaded its raster from, and the
                    \* generate_geotiff call it followed; NoneRec before
    \* ---- generate_erosion_map_task
    task_no,        \* number of the task the worker process runs
    task_pc,        \* position in the task
    task_args,      \* config_overrides of the task: none, a mapping, or malformed
    gee_initialized,\* gee_service.initialized, a module global of the worker
    bound_names,    \* locals of the task that have been assigned
    progress,       \* 'progress' of the update_state calls of the task
    posts,          \* calls of _post_to_laravel of the task, with their outcome
    task_error,     \* the exception the outer except clause caught, or None
    task_raised     \* the exception that left the task, or None

analyzeVars == <<coord_count, gee_area, approx_area, complexity>>
rasterVars == <<pc, callNo, scale, width_m, height_m, grid, cell,
                attempt, attempts_log, sleeps, requested, tile_paths, tiled_error,
                tiled_wrote, fallback_calls, tile_count, tiling_error, tif,
                npy, metadata>>
tileVars == <<tpc, geometry_json, data_bounds, tile_keys, last_tile, written,
              tiles_generated>>
colorVars == <<cm_data, cm_colored>>
sampleVars == <<samples, sampled_raster>>
gridVars == <<gpc, batch_status, all_samples>>
runVars == <<run_args, run_pc, run_open, run_keys>>
configVars == <<heap, configs, calculators, snapshots>>
loadVars == <<src_raster, loaded>>
sourceVars == <<tiles_from>>
taskVars == <<task_no, task_pc, task_args, gee_initialized, bound_names,
              progress, posts, task_error, task_raised>>
extraVars == <<runVars, configVars, loadVars, sourceVars, taskVars>>
restVars == <<colorVars, sampleVars, gridVars, extraVars>>
vars == <<analyzeVars, rasterVars, tileVars, restVars>>

\* Python's None: as a record where the value is a dict, as a string where
\* the value is a string
NoneRec == [none |-> TRUE]
None == "None"
\* a remote call that raised
Failed == [failed |-> TRUE]
Km2(a) == [km2 |-> a]

Max(a, b) == IF a >= b THEN a ELSE b
Min(a, b) == IF a <= b THEN a ELSE b

(***************************************************************************)
(* Bounds of the model.                                                    *)
(***************************************************************************)
\* coordinate counts and areas are drawn within this distance of the thresholds
Spread == 2
\* sequential generate_geotiff calls on the same area and period
MaxCalls == 2
\* pixels of a tile (tile_size is 256 in the code); the model renders one
\* row of the tile, and geometry is given along that row
NumPixels == 2
\* tiles of the zoom level (2^zoom in the code)
NumTiles == 2
\* points per side of the sampling grid (grid_size is 50 in the code)
SampleGrid == 2
\* batches submitted to the executor (ceil(sample_limit / batch_size) in the
\* code, at most 4 with the presets)
MaxBatches == 3

(***************************************************************************)
(* config.py, gee_service.py: complexity analysis.                         *)
(***************************************************************************)
COMPLEX_GEOMETRY_THRESHOLD == 500
LARGE_AREA_THRESHOLD_KM2 == 1000
DefaultAreaKm2 == 1000

\* the default wherever the remote area call fails
AreaWithoutApproximation(gee, approx) ==
    IF gee # Failed THEN gee.km2 ELSE DefaultAreaKm2

\* calculate_area_km2 with its two fallbacks, and the bare except of
\* analyze_geometry_complexity
calculate_area_km2(gee, approx) ==
    IF gee # Failed THEN gee.km2
    ELSE IF approx # Failed THEN approx.km2
    ELSE DefaultAreaKm2

IsLargeAreaGE(area) == area >= LARGE_AREA_THRESHOLD_KM2
is_large_area(area) == area > LARGE_AREA_THRESHOLD_KM2

is_complex(count) == count > COMPLEX_GEOMETRY_THRESHOLD

\* the if / elif chain that picks 'recommended'
recommended(large, cplx) ==
    IF large /\ cplx THEN
        [simplify_tolerance |-> 2000, rusle_scale |-> 300, sample_scale |-> 200,
         grid_size |-> 5, max_samples |-> 25, batch_size |-> 50, max_workers |-> 8]
    ELSE IF cplx THEN
        [simplify_tolerance |-> 1000, rusle_scale |-> 200, sample_scale |-> 150,
         grid_size |-> 7, max_samples |-> 49, batch_size |-> 50, max_workers |-> 6]
    ELSE IF large THEN
        [simplify_tolerance |-> 1000, rusle_scale |-> 200, sample_scale |-> 150,
         grid_size |-> 7, max_samples |-> 50, batch_size |-> 50, max_workers |-> 6]
    ELSE
        [simplify_tolerance |-> 500, rusle_scale |-> 100, sample_scale |-> 100,
         grid_size |-> 10, max_samples |-> 100, batch_size |-> 30, max_workers |-> 4]

\* the conditional expression that picks 'complexity_level'
complexity_level(large, cplx) ==
    IF large /\ cplx THEN "very_high"
    ELSE IF cplx THEN "high"
    ELSE IF large THEN "medium"
    ELSE "low"

analyze_geometry_complexity(count, gee, approx) ==
    LET area == calculate_area_km2(gee, approx)
        large == is_large_area(area)
        cplx == is_complex(count)
    IN  [coord_count |-> count,
         area_km2 |-> area,
         is_large_area |-> large,
         is_complex |-> cplx,
         complexity_level |-> complexity_level(large, cplx),
         recommended |-> recommended(large, cplx)]

CoordCounts ==
    (COMPLEX_GEOMETRY_THRESHOLD - Spread)..(COMPLEX_GEOMETRY_THRESHOLD + Spread)
        \cup {0, 5, 800}
Areas ==
    (LARGE_AREA_THRESHOLD_KM2 - Spread)..(LARGE_AREA_THRESHOLD_KM2 + Spread)
        \cup {0, 50, 5000}

(***************************************************************************)
(* raster_generator.py: _download_tiled_image, the grid and the sub-tiles. *)
(* Lengths are in metres: width_m stands for width_deg * meters_per_degree *)
(* so that max_pixels * scale / meters_per_degree degrees is               *)
(* max_pixels * scale metres.                                              *)
(***************************************************************************)
max_pixels == 1024
\* line 336
FourRetries == 2 + 2
max_retries == 3
max_backoff == 120
MinTilePixels == 10

CeilDiv(a, b) == (a + b - 1) \div b

\* lines 281-287: the sub-tile span is raised to the span of the box before
\* the number of columns (rows) is derived from it
GridCount(span_m, sc) ==
    LET tile_m == Max(max_pixels * sc, span_m)
    IN  Max(1, CeilDiv(span_m, tile_m))

tile_grid(w_m, h_m, sc) == [cols |-> GridCount(w_m, sc), rows |-> GridCount(h_m, sc)]

\* lines 288-289 and 298-301: sub-tile number k of n along one axis, as
\* offsets from min_lon (min_lat); n is 1 in every grid the code computes, so
\* the division is exact
TileMinOneBased(span_m, n, k) == (k + 1) * (span_m \div n)
tile_min(span_m, n, k) == k * (span_m \div n)
tile_max(span_m, n, k) == Min(tile_min(span_m, n, k) + span_m \div n, span_m)

TileSpan(span_m, n, k) == tile_max(span_m, n, k) - tile_min(span_m, n, k)

\* lines 314-317
tile_px(span_m, n, k, sc) == Min(Max(1, TileSpan(span_m, n, k) \div sc), max_pixels)

NumCells(g) == g.cols * g.rows
ColOf(g, c) == c % g.cols
RowOf(g, c) == c \div g.cols

\* line 319
too_small(g, c, w_m, h_m, sc) ==
    \/ tile_px(w_m, g.cols, ColOf(g, c), sc) < MinTilePixels
    \/ tile_px(h_m, g.rows, RowOf(g, c), sc) < MinTilePixels

\* the exceptions the model distinguishes; all derive from Exception
RetryableErrors == {"ReadTimeout", "RequestException"}
ErrorKinds == RetryableErrors \cup
    {"ValueError", "RuntimeError", "EEException", "OSError", "MergeError"}

\* line 127: except Exception
ExceptRequestErrorsOnly(err) == err \in RetryableErrors
except_Exception(err) == err \in ErrorKinds

\* box spans offered to a call, in metres: empty, below ten pixels at every
\* scale, within one sub-tile, and beyond max_pixels at every scale
BoxSpans == {0, 900, 50000, 400000}

(***************************************************************************)
(* States before any operation of a subsystem has run.                     *)
(***************************************************************************)
AnalyzeIdle ==
    /\ coord_count = 0
    /\ gee_area = Failed
    /\ approx_area = Failed
    /\ complexity = NoneRec

NoFile == [content |-> "absent", call |-> 0]

RasterIdle ==
    /\ pc = "idle"
    /\ callNo = 0
    /\ scale = 0
    /\ width_m = 0
    /\ height_m = 0
    /\ grid = [cols |-> 0, rows |-> 0]
    /\ cell = 0
    /\ attempt = 0
    /\ attempts_log = <<>>
    /\ sleeps = <<>>
    /\ requested = {}
    /\ tile_paths = <<>>
    /\ tiled_error = None
    /\ tiled_wrote = FALSE
    /\ fallback_calls = 0
    /\ tile_count = 0
    /\ tiling_error = None
    /\ tif = NoFile
    /\ npy = NoFile
    /\ metadata = NoneRec

TilesIdle ==
    /\ tpc = "idle"
    /\ geometry_json = NoneRec
    /\ data_bounds = <<0, 0>>
    /\ tile_keys = <<>>
    /\ last_tile = NoneRec
    /\ written = {}
    /\ tiles_generated = 0

ColormapIdle ==
    /\ cm_data = <<>>
    /\ cm_colored = <<>>

SamplesIdle ==
    /\ samples = NoneRec
    /\ sampled_raster = NoneRec

GridIdle ==
    /\ gpc = "idle"
    /\ batch_status = <<>>
    /\ all_samples = {}

RunsIdle ==
    /\ run_args = <<>>
    /\ run_pc = <<>>
    /\ run_open = <<>>
    /\ run_keys = <<>>

ConfigIdle ==
    /\ heap = <<>>
    /\ configs = <<>>
    /\ calculators = <<>>
    /\ snapshots = <<>>

LoadIdle ==
    /\ src_raster = NoneRec
    /\ loaded = NoneRec

SourceIdle == tiles_from = NoneRec

TaskIdle ==
    /\ task_no = 0
    /\ task_pc = "idle"
    /\ task_args = None
    /\ gee_initialized = FALSE
    /\ bound_names = {}
    /\ progress = <<>>
    /\ posts = <<>>
    /\ task_error = None
    /\ task_raised = None

ExtraIdle == RunsIdle /\ ConfigIdle /\ LoadIdle /\ SourceIdle /\ TaskIdle

RestIdle == ColormapIdle /\ SamplesIdle /\ GridIdle /\ ExtraIdle

(***************************************************************************)
(* SpecAnalyze: analyze_geometry_complexity on every input of the bounded  *)
(* sets.                                                                   *)
(***************************************************************************)
InitAnalyze ==
    /\ coord_count \in CoordCounts
    /\ gee_area \in {Km2(a) : a \in Areas} \cup {Failed}
    /\ approx_area \in {Km2(a) : a \in Areas} \cup {Failed}
    /\ complexity = NoneRec
    /\ RasterIdle
    /\ TilesIdle
    /\ RestIdle

Analyze ==
    /\ complexity = NoneRec
    /\ complexity' = analyze_geometry_complexity(coord_count, gee_area, approx_area)
    /\ UNCHANGED <<coord_count, gee_area, approx_area, rasterVars, tileVars,
                   restVars>>

NextAnalyze == Analyze

SpecAnalyze == InitAnalyze /\ [][NextAnalyze]_vars

(***************************************************************************)
(* Claims on the complexity analysis.                                      *)
(***************************************************************************)
\* the four presets, by the level the code's comments give them
\* (very complex / complex but smaller / large but simple / small and simple)
PresetOfLevel(level) ==
    CASE level = "very_high" ->
        [simplify_tolerance |-> 2000, rusle_scale |-> 300, sample_scale |-> 200,
         grid_size |-> 5, max_samples |-> 25, batch_size |-> 50, max_workers |-> 8]
      [] level = "high" ->
        [simplify_tolerance |-> 1000, rusle_scale |-> 200, sample_scale |-> 150,
         grid_size |-> 7, max_samples |-> 49, batch_size |-> 50, max_workers |-> 6]
      [] level = "medium" ->
        [simplify_tolerance |-> 1000, rusle_scale |-> 200, sample_scale |-> 150,
         grid_size |-> 7, max_samples |-> 50, batch_size |-> 50, max_workers |-> 6]
      [] level = "low" ->
        [simplify_tolerance |-> 500, rusle_scale |-> 100, sample_scale |-> 100,
         grid_size |-> 10, max_samples |-> 100, batch_size |-> 30, max_workers |-> 4]

\* C1: every (vertex count, area) input is classified into exactly one level
\* by the two strict comparisons area > area threshold and vertex count >
\* vertex threshold (very_high iff both, high iff only complex, medium iff
\* only large, low iff neither), and 'recommended' is the preset of that level.
C1_Classification ==
    complexity # NoneRec =>
        LET large == complexity.area_km2 > LARGE_AREA_THRESHOLD_KM2
            cplx == complexity.coord_count > COMPLEX_GEOMETRY_THRESHOLD
            level == complexity.complexity_level
        IN  /\ complexity.coord_count = coord_count
            /\ gee_area # Failed => complexity.area_km2 = gee_area.km2
            /\ complexity.is_large_area = large
            /\ complexity.is_complex = cplx
            /\ level \in {"very_high", "high", "medium", "low"}
            /\ (level = "very_high") <=> (large /\ cplx)
            /\ (level = "high") <=> (~large /\ cplx)
            /\ (level = "medium") <=> (large /\ ~cplx)
            /\ (level = "low") <=> (~large /\ ~cplx)
            /\ complexity.recommended = PresetOfLevel(level)

\* an input exactly on both thresholds has been classified (low), and so has
\* one just above both (very_high)
C1_Witness ==
    /\ complexity # NoneRec
    /\ complexity.area_km2 = LARGE_AREA_THRESHOLD_KM2
    /\ complexity.coord_count = COMPLEX_GEOMETRY_THRESHOLD
    /\ complexity.complexity_level = "low"

\* C28: the analysis returns for every input, also when the remote area
\* call fails: it then takes the area of the bounding-box approximation,
\* and 1000 km2 when that fails as well, an area that is not large.
C28_AreaFallbacks ==
    /\ complexity = NoneRec => ENABLED Analyze
    /\ complexity # NoneRec =>
        /\ (gee_area = Failed /\ approx_area # Failed)
                => complexity.area_km2 = approx_area.km2
        /\ (gee_area = Failed /\ approx_area = Failed)
                => /\ complexity.area_km2 = 1000
                   /\ ~complexity.is_large_area
                   /\ complexity.complexity_level \in {"low", "high"}

\* both remote calls failed for a polygon of many vertices, and the analysis
\* returned
C28_Witness ==
    /\ complexity # NoneRec
    /\ gee_area = Failed
    /\ approx_area = Failed
    /\ complexity.area_km2 = DefaultAreaKm2
    /\ complexity.complexity_level = "high"

\* the order of the levels: low < medium < high < very_high
LevelRank(level) ==
    CASE level = "low" -> 1
      [] level = "medium" -> 2
      [] level = "high" -> 3
      [] level = "very_high" -> 4

\* preset q belongs to a level at least as complex as the level of preset p
CoarserOrEqual(p, q) ==
    /\ p.simplify_tolerance <= q.simplify_tolerance
    /\ p.rusle_scale <= q.rusle_scale
    /\ p.sample_scale <= q.sample_scale
    /\ p.grid_size >= q.grid_size
    /\ p.max_samples >= q.max_samples
    /\ p.max_workers >= q.max_workers

\* C22: against the result of any input of a lower or equal level, the
\* recommendation of the analysed input has a simplification tolerance,
\* compute scale and sample scale at least as large, and a grid size, sample
\* limit and worker count at most as large.
C22_PresetsMonotone ==
    complexity # NoneRec =>
        \A c \in CoordCounts, a \in Areas :
            LET other == analyze_geometry_complexity(c, Km2(a), Failed)
            IN  LevelRank(other.complexity_level)
                        <= LevelRank(complexity.complexity_level)
                    => CoarserOrEqual(other.recommended, complexity.recommended)

\* every field but the worker count is ordered as claimed
C22_AllButWorkers ==
    complexity # NoneRec =>
        \A c \in CoordCounts, a \in Areas :
            LET other == analyze_geometry_complexity(c, Km2(a), Failed)
                p == other.recommended
                q == complexity.recommended
            IN  LevelRank(other.complexity_level)
                        <= LevelRank(complexity.complexity_level)
                    => /\ p.simplify_tolerance <= q.simplify_tolerance
                       /\ p.rusle_scale <= q.rusle_scale
                       /\ p.sample_scale <= q.sample_scale
                       /\ p.grid_size >= q.grid_size
                       /\ p.max_samples >= q.max_samples

(***************************************************************************)
(* SpecRaster: sequential generate_geotiff calls for one area and period,  *)
(* sharing the output directory geotiff/{area_type}_{area_id}/{period}.    *)
(***************************************************************************)
loopVars == <<cell, attempt, attempts_log, sleeps, requested, tile_paths>>
errVars == <<tiled_error, tiling_error, fallback_calls>>
otherVars == <<analyzeVars, tileVars, restVars>>

Ended == {"idle", "returned", "raised"}

File(content, call) == [content |-> content, call |-> call]

InitRaster ==
    /\ AnalyzeIdle
    /\ RasterIdle
    /\ TilesIdle
    /\ RestIdle

\* generate_geotiff, lines 45-118: geometry conversion, complexity analysis,
\* RUSLE computation, output directory; the locals of the call
Prepare ==
    /\ pc \in Ended
    /\ callNo < MaxCalls
    /\ callNo' = callNo + 1
    /\ \E count \in {5, 800}, area \in {50, 5000} :
        /\ coord_count' = count
        /\ gee_area' = Km2(area)
        /\ approx_area' = Failed
        /\ complexity' = analyze_geometry_complexity(count, Km2(area), Failed)
        /\ scale' = complexity'.recommended.rusle_scale
    /\ pc' = "download"
    /\ width_m' = 0
    /\ height_m' = 0
    /\ grid' = [cols |-> 0, rows |-> 0]
    /\ cell' = 0
    /\ attempt' = 0
    /\ attempts_log' = <<>>
    /\ sleeps' = <<>>
    /\ requested' = {}
    /\ tile_paths' = <<>>
    /\ tiled_error' = None
    /\ tiled_wrote' = FALSE
    /\ fallback_calls' = 0
    /\ tile_count' = 0
    /\ tiling_error' = None
    /\ metadata' = NoneRec
    /\ UNCHANGED <<tif, npy, tileVars, restVars>>

\* any statement of lines 45-114 raises: the call ends at line 172
PrepareFails ==
    /\ pc \in Ended
    /\ callNo < MaxCalls
    /\ callNo' = callNo + 1
    /\ pc' = "raised"
    /\ scale' = 0
    /\ width_m' = 0
    /\ height_m' = 0
    /\ grid' = [cols |-> 0, rows |-> 0]
    /\ cell' = 0
    /\ attempt' = 0
    /\ attempts_log' = <<>>
    /\ sleeps' = <<>>
    /\ requested' = {}
    /\ tile_paths' = <<>>
    /\ tiled_error' = None
    /\ tiled_wrote' = FALSE
    /\ fallback_calls' = 0
    /\ tile_count' = 0
    /\ tiling_error' = None
    /\ metadata' = NoneRec
    /\ UNCHANGED <<tif, npy, otherVars>>

\* an exception leaves _download_tiled_image: the handler of lines 127-137
\* records it and calls _generate_from_samples; one the handler does not
\* catch leaves generate_geotiff through line 172
TiledRaises(err) ==
    /\ tiled_error' = err
    /\ IF except_Exception(err)
       THEN /\ tiling_error' = err
            /\ fallback_calls' = fallback_calls + 1
            /\ pc' = "sampling"
       ELSE /\ pc' = "raised"
            /\ UNCHANGED <<tiling_error, fallback_calls>>

\* lines 261-291: the bounds of the geometry and the grid
DownloadBounds ==
    /\ pc = "download"
    /\ \E w \in BoxSpans, h \in BoxSpans :
        /\ width_m' = w
        /\ height_m' = h
        /\ IF w <= 0 \/ h <= 0
           THEN /\ TiledRaises("ValueError")
                /\ UNCHANGED grid
           ELSE /\ grid' = tile_grid(w, h, scale)
                /\ pc' = "tile_loop"
                /\ UNCHANGED errVars
    /\ UNCHANGED <<callNo, scale, loopVars, tiled_wrote, tile_count, tif, npy,
                   metadata, otherVars>>

\* line 261: geometry.bounds().getInfo() raises
DownloadBoundsFails ==
    /\ pc = "download"
    /\ TiledRaises("EEException")
    /\ UNCHANGED <<callNo, scale, width_m, height_m, grid, loopVars, tiled_wrote,
                   tile_count, tif, npy, metadata, otherVars>>

InLoop == pc = "tile_loop" /\ cell < NumCells(grid)

\* lines 306-312: the intersection area is <= 0, or the area query raised
TileSkipped ==
    /\ InLoop
    /\ cell' = cell + 1
    /\ UNCHANGED <<pc, callNo, scale, width_m, height_m, grid, attempt,
                   attempts_log, sleeps, requested, tile_paths, errVars, tiled_wrote,
                   tile_count, tif, npy, metadata, otherVars>>

\* lines 314-320: area > 0 but the sub-tile is under ten pixels in a dimension
TileTooSmall ==
    /\ InLoop
    /\ too_small(grid, cell, width_m, height_m, scale)
    /\ cell' = cell + 1
    /\ UNCHANGED <<pc, callNo, scale, width_m, height_m, grid, attempt,
                   attempts_log, sleeps, requested, tile_paths, errVars, tiled_wrote,
                   tile_count, tif, npy, metadata, otherVars>>

\* lines 322-337: the sub-tile is needed; its URL is built, the retry loop starts
TileNeeded ==
    /\ InLoop
    /\ ~too_small(grid, cell, width_m, height_m, scale)
    /\ pc' = "request"
    /\ attempt' = 1
    /\ attempts_log' = <<>>
    /\ sleeps' = <<>>
    /\ UNCHANGED <<callNo, scale, width_m, height_m, grid, cell, requested,
                   tile_paths, errVars, tiled_wrote, tile_count, tif, npy,
                   metadata, otherVars>>

\* line 322: getThumbURL raises
TileUrlFails ==
    /\ InLoop
    /\ ~too_small(grid, cell, width_m, height_m, scale)
    /\ TiledRaises("EEException")
    /\ UNCHANGED <<callNo, scale, width_m, height_m, grid, loopVars, tiled_wrote,
                   tile_count, tif, npy, metadata, otherVars>>

\* line 337: for attempt in range(1, max_retries + 1)
InRetryLoop == pc = "request" /\ attempt \in 1..max_retries

\* lines 339-346: the request succeeds, the tile file is written
RequestSucceeds ==
    /\ InRetryLoop
    /\ attempts_log' = Append(attempts_log, "ok")
    /\ UNCHANGED sleeps
    /\ requested' = requested \cup {cell}
    /\ tile_paths' = Append(tile_paths, cell)
    /\ cell' = cell + 1
    /\ pc' = "tile_loop"
    /\ UNCHANGED <<callNo, scale, width_m, height_m, grid, attempt, errVars,
                   tiled_wrote, tile_count, tif, npy, metadata, otherVars>>

\* the wait of a read timeout after every failure
BackoffOfTimeout(err, a) == Min(max_backoff, 10 * a)

\* lines 356 and 371
backoff(err, a) ==
    IF err = "ReadTimeout" THEN Min(max_backoff, 10 * a)
    ELSE Min(max_backoff, 5 * a)

\* lines 348 and 363
NeverGivesUp(a) == FALSE
gives_up(a) == a = max_retries

\* lines 347-376: ReadTimeout, or another RequestException (raise_for_status
\* included); re-raised on the last attempt, else a sleep and the next attempt
RequestFails ==
    /\ InRetryLoop
    /\ \E err \in RetryableErrors :
        /\ attempts_log' = Append(attempts_log, err)
        /\ requested' = requested \cup {cell}
        /\ IF gives_up(attempt)
           THEN /\ TiledRaises(err)
                /\ UNCHANGED <<cell, attempt, sleeps>>
           ELSE /\ attempt' = attempt + 1
                /\ sleeps' = Append(sleeps, backoff(err, attempt))
                /\ IF attempt + 1 \in 1..max_retries
                   THEN UNCHANGED <<pc, cell>>
                   ELSE pc' = "tile_loop" /\ cell' = cell + 1
                /\ UNCHANGED errVars
    /\ UNCHANGED <<callNo, scale, width_m, height_m, grid, tile_paths,
                   tiled_wrote, tile_count, tif, npy, metadata, otherVars>>

\* lines 342-343: the response arrived but the tile file cannot be written;
\* OSError is no RequestException and leaves the retry loop at once
TileFileFails ==
    /\ InRetryLoop
    /\ attempts_log' = Append(attempts_log, "OSError")
    /\ UNCHANGED sleeps
    /\ requested' = requested \cup {cell}
    /\ TiledRaises("OSError")
    /\ UNCHANGED <<callNo, scale, width_m, height_m, grid, cell, attempt,
                   tile_paths, tiled_wrote, tile_count, tif, npy, metadata,
                   otherVars>>

LoopEndReturnsZero ==
    /\ pc = "tile_loop"
    /\ cell = NumCells(grid)
    /\ IF tile_paths = <<>>
       THEN pc' = "verify" /\ tile_count' = 0
       ELSE pc' = "merge" /\ UNCHANGED tile_count
    /\ UNCHANGED <<callNo, scale, width_m, height_m, grid, loopVars, errVars,
                   tiled_wrote, tif, npy, metadata, otherVars>>

\* lines 378-379: the loops are over
LoopEnd ==
    /\ pc = "tile_loop"
    /\ cell = NumCells(grid)
    /\ IF tile_paths = <<>>
       THEN TiledRaises("RuntimeError")
       ELSE pc' = "merge" /\ UNCHANGED errVars
    /\ UNCHANGED <<callNo, scale, width_m, height_m, grid, loopVars,
                   tiled_wrote, tile_count, tif, npy, metadata, otherVars>>

\* lines 381-399: the tiles are opened and merged, the mosaic is written to
\* output_path, len(tile_paths) is returned and assigned to tile_count
MergeWrites ==
    /\ pc = "merge"
    /\ tif' = File("mosaic", callNo)
    /\ tiled_wrote' = TRUE
    /\ tile_count' = Len(tile_paths)
    /\ pc' = "verify"
    /\ UNCHANGED <<callNo, scale, width_m, height_m, grid, loopVars, errVars,
                   npy, metadata, otherVars>>

\* lines 381-383: a tile cannot be opened, or merge raises
MergeFails ==
    /\ pc = "merge"
    /\ TiledRaises("MergeError")
    /\ UNCHANGED <<callNo, scale, width_m, height_m, grid, loopVars, tiled_wrote,
                   tile_count, tif, npy, metadata, otherVars>>

\* lines 393-394: output_path was opened for writing and the write raised
MergeWriteFails ==
    /\ pc = "merge"
    /\ tif' = File("partial", callNo)
    /\ tiled_wrote' = TRUE
    /\ TiledRaises("OSError")
    /\ UNCHANGED <<callNo, scale, width_m, height_m, grid, loopVars, tile_count,
                   npy, metadata, otherVars>>

frameFallback == <<callNo, scale, width_m, height_m, grid, loopVars, errVars,
                   tiled_wrote, tile_count, metadata, otherVars>>

\* _generate_from_samples, lines 189-219 or 236: the bounds, the sampling
\* request or the opening of the sidecar raises (lines 253-255 re-raise)
SamplingFails ==
    /\ pc = "sampling"
    /\ pc' = "raised"
    /\ UNCHANGED <<tif, npy, frameFallback>>

\* lines 189-241: the grid is sampled and pickled to erosion.npy
SaveNpy ==
    /\ pc = "sampling"
    /\ npy' = File("sampled", callNo)
    /\ pc' = "to_geotiff"
    /\ UNCHANGED <<tif, frameFallback>>

\* lines 236-241: the sidecar was opened for writing and pickle.dump raised
SaveNpyFails ==
    /\ pc = "sampling"
    /\ npy' = File("partial", callNo)
    /\ pc' = "raised"
    /\ UNCHANGED <<tif, frameFallback>>

\* lines 245-249, _numpy_to_geotiff: the sampled raster is written
ToGeotiff ==
    /\ pc = "to_geotiff"
    /\ tif' = File("sampled", callNo)
    /\ pc' = "verify"
    /\ UNCHANGED <<npy, frameFallback>>

ToGeotiffFailsSwallowed ==
    /\ pc = "to_geotiff"
    /\ tif' \in {tif, File("partial", callNo)}
    /\ pc' = "verify"
    /\ UNCHANGED <<npy, frameFallback>>

\* lines 421-442: rasterio.open or dst.write raises, before or after the
\* file was created; re-raised at lines 442 and 255
ToGeotiffFails ==
    /\ pc = "to_geotiff"
    /\ tif' \in {tif, File("partial", callNo)}
    /\ pc' = "raised"
    /\ UNCHANGED <<npy, frameFallback>>

\* lines 140-168: output_path.exists(), the metadata, the return
Finish ==
    /\ pc = "verify"
    /\ IF tif.content = "absent"
       THEN pc' = "raised" /\ UNCHANGED metadata
       ELSE /\ pc' = "returned"
            /\ metadata' = [complexity |-> complexity.complexity_level,
                            scale |-> scale,
                            tile_count |-> tile_count,
                            tiling_error |-> tiling_error]
    /\ UNCHANGED <<callNo, scale, width_m, height_m, grid, loopVars, errVars,
                   tiled_wrote, tile_count, tif, npy, otherVars>>

\* lines 161-165: compute_erosion_class_breakdown raises
BreakdownFails ==
    /\ pc = "verify"
    /\ tif.content # "absent"
    /\ pc' = "raised"
    /\ UNCHANGED <<callNo, scale, width_m, height_m, grid, loopVars, errVars,
                   tiled_wrote, tile_count, tif, npy, metadata, otherVars>>

\* tile_generator.py lines 53-61: the .npy next to the GeoTIFF when there is
\* one, else the GeoTIFF
raster_for_tiles(t, n) == IF n # NoFile THEN n ELSE t

\* tile_generator.py lines 50-68: generate_tiles, called with the path a
\* generate_geotiff call returned, loads its raster
LoadForTiles ==
    /\ pc = "returned"
    /\ IF tiles_from = NoneRec THEN TRUE ELSE tiles_from.run # callNo
    /\ tiles_from' = [run |-> callNo, file |-> raster_for_tiles(tif, npy)]
    /\ UNCHANGED <<rasterVars, analyzeVars, tileVars, colorVars, sampleVars,
                   gridVars, runVars, configVars, loadVars, taskVars>>

NextRaster ==
    \/ LoadForTiles
    \/ Prepare
    \/ PrepareFails
    \/ DownloadBounds
    \/ DownloadBoundsFails
    \/ TileSkipped
    \/ TileTooSmall
    \/ TileNeeded
    \/ TileUrlFails
    \/ RequestSucceeds
    \/ RequestFails
    \/ TileFileFails
    \/ LoopEnd
    \/ MergeWrites
    \/ MergeFails
    \/ MergeWriteFails
    \/ SamplingFails
    \/ SaveNpy
    \/ SaveNpyFails
    \/ ToGeotiff
    \/ ToGeotiffFails
    \/ Finish
    \/ BreakdownFails

SpecRaster == InitRaster /\ [][NextRaster]_vars

(***************************************************************************)
(* Claims on generate_geotiff and _download_tiled_image.                   *)
(***************************************************************************)
Range(f) == {f[i] : i \in DOMAIN f}
Last(q) == q[Len(q)]

\* the raster at output_path was written by the running call
WrittenNow(content) == tif = File(content, callNo)

\* C2: whenever the tiled download raises, the sampling fallback is invoked
\* exactly once; when it does not raise, the fallback is never invoked; a
\* result the fallback produced is returned with tiling_error set and
\* tile_count 0.
C2_FallbackExactlyOnce ==
    /\ tiled_error # None => fallback_calls = 1
    /\ tiled_error = None => fallback_calls = 0
    /\ (pc = "returned" /\ fallback_calls = 1) =>
            /\ metadata.tiling_error = tiled_error
            /\ metadata.tiling_error # None
            /\ metadata.tile_count = 0
    /\ (pc = "returned" /\ fallback_calls = 0) => metadata.tiling_error = None

\* a call whose tiled download found invalid bounds returned the sampled raster
C2_Witness ==
    /\ pc = "returned"
    /\ tiled_error = "ValueError"
    /\ fallback_calls = 1
    /\ WrittenNow("sampled")
    /\ metadata.tile_count = 0

\* C3: a call that returns has written the raster during that call, either
\* by the tiled path with no fallback recorded or by the sampling fallback
\* with the fallback recorded; every other call raises.
C3_ThreeOutcomes ==
    /\ pc = "returned" =>
        \/ /\ WrittenNow("mosaic")
           /\ tiled_wrote
           /\ fallback_calls = 0
           /\ metadata.tiling_error = None
        \/ /\ WrittenNow("sampled")
           /\ fallback_calls = 1
           /\ metadata.tiling_error # None
    /\ metadata # NoneRec <=> pc = "returned"

\* a second call returned the sampled raster, over the file of the first call
C3_Witness ==
    /\ pc = "returned"
    /\ callNo >= 2
    /\ WrittenNow("sampled")
    /\ metadata.tiling_error # None

\* C4: at most 3 HTTP requests are issued for a sub-tile; a sub-tile whose
\* first two requests timed out and whose third succeeded is among the
\* downloaded tiles; a mosaic written by the call is made of every sub-tile
\* that was requested.
C4_AtMostThreeRequests ==
    /\ Len(attempts_log) <= 3
    /\ attempts_log = <<"ReadTimeout", "ReadTimeout", "ok">> =>
            (cell - 1) \in Range(tile_paths)
    /\ WrittenNow("mosaic") =>
            /\ Range(tile_paths) = requested
            /\ tile_count = Cardinality(requested)
            /\ tiled_error = None

\* the download succeeded with a sub-tile fetched on its third attempt
C4_Witness ==
    /\ attempts_log = <<"ReadTimeout", "ReadTimeout", "ok">>
    /\ pc = "returned"
    /\ WrittenNow("mosaic")
    /\ metadata.tile_count = 1
    /\ metadata.tiling_error = None

\* the retry loop of the sub-tile at hand ended with a failed last attempt
Exhausted ==
    /\ Len(attempts_log) = max_retries
    /\ Last(attempts_log) \in RetryableErrors

\* C5: once a sub-tile has exhausted its retries the tiled path is over: the
\* failure is the exception that leaves it and reaches the caller's handler,
\* no later sub-tile is requested, nothing is merged and the tiled path does
\* not write the output path; a mosaic is written only from sub-tiles that
\* were all downloaded.
C5_AbortOnExhaustion ==
    /\ Exhausted =>
            /\ tiled_error = Last(attempts_log)
            /\ tiling_error = tiled_error
            /\ pc \notin {"tile_loop", "request", "merge"}
            /\ \A c \in requested : c <= cell
            /\ ~tiled_wrote
            /\ ~WrittenNow("mosaic")
    /\ WrittenNow("mosaic") =>
            /\ \A c \in requested : c \in Range(tile_paths)
            /\ ~Exhausted

\* three read-timeouts on a sub-tile; the call went on with the fallback
C5_Witness ==
    /\ attempts_log = <<"ReadTimeout", "ReadTimeout", "ReadTimeout">>
    /\ pc = "returned"
    /\ WrittenNow("sampled")

\* the sub-tile loop is over and no sub-tile was downloaded
NothingDownloaded ==
    /\ grid.cols > 0
    /\ cell = NumCells(grid)
    /\ requested = {}
    /\ pc # "tile_loop"

\* _download_tiled_image returned
TiledReturned ==
    /\ grid.cols > 0
    /\ tiled_error = None
    /\ pc \in {"verify", "returned", "raised"}

\* C6: when every sub-tile was skipped, _download_tiled_image raises and
\* writes no output raster; whenever it returns, the tile count is >= 1.
C6_NoTilesIsAnError ==
    /\ NothingDownloaded =>
            /\ tiled_error = "RuntimeError"
            /\ ~tiled_wrote
            /\ ~WrittenNow("mosaic")
    /\ TiledReturned =>
            /\ tile_count >= 1
            /\ tile_count = Len(tile_paths)

\* a box under ten pixels wide: its only sub-tile was skipped
C6_Witness ==
    /\ NothingDownloaded
    /\ width_m = 900
    /\ tiled_error = "RuntimeError"
    /\ pc = "sampling"

\* the tiled download failed and then the sampling fallback failed
BothFailed ==
    /\ pc = "raised"
    /\ fallback_calls = 1
    /\ ~WrittenNow("sampled")

\* C7: when the tiled download and the sampling fallback both fail, the call
\* raises and the output directory holds no erosion.tif and no .npy sidecar,
\* neither of the failed call nor of an earlier one.
C7_NoPartialOutput ==
    BothFailed => (tif.content = "absent" /\ npy.content = "absent")

(***************************************************************************)
(* Claims on the grid of sub-tiles of _download_tiled_image.               *)
(***************************************************************************)
\* the running call has computed its grid
GridComputed == grid.cols > 0

GridCells == 0..(NumCells(grid) - 1)

\* metres one sub-tile may cover: max_pixels * scale
MaxTileSpan == max_pixels * scale

\* C13: when the bounding box is wider or higher than one sub-tile may cover,
\* the grid holds more than one sub-tile.
C13_LargeBoxIsSplit ==
    (GridComputed /\ (width_m > MaxTileSpan \/ height_m > MaxTileSpan))
        => NumCells(grid) > 1

\* C14: every sub-tile spans at most max_pixels pixels at the requested scale
\* in width and in height, and its pixel dimensions are those of its span at
\* that scale, not the pixel cap.
C14_TileWithinPixelCap ==
    GridComputed =>
        \A c \in GridCells :
            LET w == TileSpan(width_m, grid.cols, ColOf(grid, c))
                h == TileSpan(height_m, grid.rows, RowOf(grid, c))
            IN  /\ w <= MaxTileSpan
                /\ h <= MaxTileSpan
                /\ tile_px(width_m, grid.cols, ColOf(grid, c), scale)
                        = Max(1, w \div scale)
                /\ tile_px(height_m, grid.rows, RowOf(grid, c), scale)
                        = Max(1, h \div scale)

\* the rectangle of sub-tile c: <<west, south, east, north>> from the
\* south-west corner of the bounding box
TileRect(c) ==
    <<tile_min(width_m, grid.cols, ColOf(grid, c)),
      tile_min(height_m, grid.rows, RowOf(grid, c)),
      tile_max(width_m, grid.cols, ColOf(grid, c)),
      tile_max(height_m, grid.rows, RowOf(grid, c))>>

\* the interiors of two rectangles meet
Overlap(r, q) ==
    /\ Max(r[1], q[1]) < Min(r[3], q[3])
    /\ Max(r[2], q[2]) < Min(r[4], q[4])

\* sum of the spans of the first n of the k sub-tiles along one axis
RECURSIVE SumOfSpans(_, _, _)
SumOfSpans(span_m, k, n) ==
    IF n = 0 THEN 0 ELSE TileSpan(span_m, k, n - 1) + SumOfSpans(span_m, k, n - 1)

\* C15: the sub-tiles of a grid lie within the bounding box, no two of them
\* overlap, and their areas sum to the area of the bounding box.  A sub-tile
\* is the product of a column span and a row span, so the areas sum to
\* (sum of the column spans) * (sum of the row spans).
C15_GridPartitionsBox ==
    GridComputed =>
        /\ \A c \in GridCells :
                LET r == TileRect(c)
                IN  /\ 0 <= r[1] /\ r[1] <= r[3] /\ r[3] <= width_m
                    /\ 0 <= r[2] /\ r[2] <= r[4] /\ r[4] <= height_m
        /\ \A c, d \in GridCells : c # d => ~Overlap(TileRect(c), TileRect(d))
        /\ SumOfSpans(width_m, grid.cols, grid.cols) = width_m
        /\ SumOfSpans(height_m, grid.rows, grid.rows) = height_m

\* a box wider than high was tiled and its sub-tile was requested
C15_Witness ==
    /\ GridComputed
    /\ width_m = 400000
    /\ height_m = 50000
    /\ requested = {0}
    /\ TileRect(0) = <<0, 0, width_m, height_m>>

(***************************************************************************)
(* tile_generator.py: float32 pixel values.  A value is NaN, an infinity   *)
(* or a number; comparisons follow IEEE 754 as numpy applies them (every   *)
(* comparison with NaN is false).                                          *)
(***************************************************************************)
NaN == [k |-> "nan", v |-> 0]
PosInf == [k |-> "inf", v |-> 0]
NegInf == [k |-> "ninf", v |-> 0]
Num(n) == [k |-> "num", v |-> n]

isnan(x) == x.k = "nan"
isfinite(x) == x.k = "num"

\* x < c, x <= c, x > c, x >= c for a number c
LtNum(x, c) == x.k = "ninf" \/ (x.k = "num" /\ x.v < c)
LeNum(x, c) == x.k = "ninf" \/ (x.k = "num" /\ x.v <= c)
GtNum(x, c) == x.k = "inf" \/ (x.k = "num" /\ x.v > c)
GeNum(x, c) == x.k = "inf" \/ (x.k = "num" /\ x.v >= c)

(***************************************************************************)
(* apply_erosion_colormap, one pixel: the array starts at zeros and the    *)
(* five masked assignments are applied in the order of the code.           *)
(***************************************************************************)
Transparent == <<0, 0, 0, 0>>
Green == <<76, 175, 80, 200>>
Yellow == <<255, 235, 59, 200>>
Orange == <<255, 152, 0, 200>>
Red == <<244, 67, 54, 220>>

\* line 451
nodata_mask(x) == LeNum(x, 0) \/ isnan(x)

ColormapClosedAbove(x) ==
    IF nodata_mask(x) THEN Transparent
    ELSE IF LeNum(x, 50) THEN Green
    ELSE IF LeNum(x, 100) THEN Yellow
    ELSE IF LeNum(x, 150) THEN Orange
    ELSE Red

apply_erosion_colormap(x) ==
    LET c0 == Transparent
        c1 == IF GtNum(x, 0) /\ LtNum(x, 50) /\ ~nodata_mask(x) THEN Green ELSE c0
        c2 == IF GeNum(x, 50) /\ LtNum(x, 100) /\ ~nodata_mask(x) THEN Yellow ELSE c1
        c3 == IF GeNum(x, 100) /\ LtNum(x, 150) /\ ~nodata_mask(x) THEN Orange ELSE c2
        c4 == IF GeNum(x, 150) /\ ~nodata_mask(x) THEN Red ELSE c3
    IN  IF nodata_mask(x) THEN Transparent ELSE c4

Alpha(rgba) == rgba[4]

(***************************************************************************)
(* Tiles and geometry.  The model keeps one row of pixels of a tile and    *)
(* the x axis of Web Mercator: tile x spans [x * TileUnits, (x+1) *        *)
(* TileUnits], two units per pixel.  A ring is the interval <<lo, hi>> its *)
(* vertices span; a part is an exterior ring and its interior rings.       *)
(* Pixel p of the code (0-based) is index p + 1 of a row.                  *)
(***************************************************************************)
tile_size == NumPixels
TileUnits == 2 * NumPixels

Pixels == 1..tile_size

\* mercantile.xy_bounds(tile)
TileLeft(x) == x * TileUnits
TileRight(x) == (x + 1) * TileUnits

\* Python's int(): truncation toward zero
TruncDiv(a, b) == IF a >= 0 THEN a \div b ELSE -((-a) \div b)
FloorDiv(a, b) == a \div b

\* lines 400-403
to_pixel(wx, x) ==
    LET x_range == TileRight(x) - TileLeft(x)
    IN  TruncDiv((wx - TileLeft(x)) * tile_size, x_range)

DrawPolygonOpen(mask, ring, x, fill) ==
    LET a == to_pixel(ring[1], x)
        b == to_pixel(ring[2], x)
    IN  [p \in Pixels |-> IF Min(a, b) < p - 1 /\ p - 1 < Max(a, b)
                          THEN fill ELSE mask[p]]

\* ImageDraw.polygon(pixels, fill): the pixels between the ring's vertices,
\* edges included, clipped to the image
DrawPolygon(mask, ring, x, fill) ==
    LET a == to_pixel(ring[1], x)
        b == to_pixel(ring[2], x)
    IN  [p \in Pixels |-> IF Min(a, b) <= p - 1 /\ p - 1 <= Max(a, b)
                          THEN fill ELSE mask[p]]

RECURSIVE DrawHoles(_, _, _, _)
DrawHoles(mask, holes, i, x) ==
    IF i > Len(holes) THEN mask
    ELSE DrawHoles(DrawPolygon(mask, holes[i], x, 0), holes, i + 1, x)

\* lines 406-413 and 416-422: the exterior filled with 255, then each
\* interior filled with 0
DrawPart(mask, part, x) ==
    DrawHoles(DrawPolygon(mask, part.ext, x, 255), part.holes, 1, x)

RECURSIVE DrawParts(_, _, _, _)
DrawParts(mask, parts, i, x) ==
    IF i > Len(parts) THEN mask
    ELSE DrawParts(DrawPart(mask, parts[i], x), parts, i + 1, x)

\* shapely: box(tile).intersects(shape(geometry)); rings are closed sets and
\* the open interior of a hole is outside the polygon
PartIntersects(part, x) ==
    LET lo == Max(part.ext[1], TileLeft(x))
        hi == Min(part.ext[2], TileRight(x))
    IN  /\ lo <= hi
        /\ \A i \in DOMAIN part.holes :
                ~(part.holes[i][1] < lo /\ hi < part.holes[i][2])

intersects(geom, x) == \E i \in DOMAIN geom.parts : PartIntersects(geom.parts[i], x)

ZeroMask == [p \in Pixels |-> 0]
NoMask == <<>>

\* lines 394-424: the mask of a geometry that intersects the tile; a geometry
\* that is neither Polygon nor MultiPolygon draws nothing
draw_mask(geom, x) ==
    IF geom.type = "Polygon" THEN DrawPart(ZeroMask, geom.parts[1], x)
    ELSE IF geom.type = "MultiPolygon" THEN DrawParts(ZeroMask, geom.parts, 1, x)
    ELSE ZeroMask

\* _create_geometry_mask: None when shapely is missing or anything raises
\* (lines 426-431)
create_geometry_mask(geom, x, raises) ==
    IF raises THEN NoMask
    ELSE IF ~intersects(geom, x) THEN ZeroMask
    ELSE draw_mask(geom, x)

\* Image.composite(img, transparent, mask), line 346
composite(img, mask) ==
    [p \in Pixels |-> IF mask[p] = 255 THEN img[p] ELSE Transparent]

(***************************************************************************)
(* _render_tile.  row is what reproject leaves in dst_data (an external    *)
(* resampler: any row of values), reproject_raises and mask_raises say     *)
(* whether reproject and the mask builder raise for this tile.             *)
(***************************************************************************)
Rendered(outcome, scalar, colored, mask, image) ==
    [outcome |-> outcome, scalar |-> scalar, colored |-> colored,
     mask |-> mask, image |-> image]

ReturnsNone(why) == Rendered(why, <<>>, <<>>, NoMask, <<>>)

\* np.isfinite(tile_data).any(), line 326
AnyFinite(row) == \E p \in DOMAIN row : isfinite(row[p])

\* np.any(tile_scalar > 0), line 332
AnyPositive(row) == \E p \in DOMAIN row : GtNum(row[p], 0)

\* np.any(colored_tile[:, :, 3]), line 338
AnyOpaque(img) == \E p \in DOMAIN img : Alpha(img[p]) # 0

\* lines 329-330
clamp_negative(row) == [p \in Pixels |-> IF LtNum(row[p], 0) THEN Num(0) ELSE row[p]]

\* lines 343-346 with the mask applied whatever it shows
MaskedImage(colored, geom, x, mask_raises) ==
    IF geom = NoneRec THEN Rendered("image", <<>>, colored, NoMask, colored)
    ELSE LET mask == create_geometry_mask(geom, x, mask_raises)
         IN  IF mask # NoMask
             THEN Rendered("image", <<>>, colored, mask, composite(colored, mask))
             ELSE Rendered("image", <<>>, colored, NoMask, colored)

\* the tile is resampled unless it lies apart from the raster
RenderTouchingTiles(row, x, bounds, geom, reproject_raises, mask_raises) ==
    LET west == bounds[1]
        east == bounds[2]
        tile_scalar == clamp_negative(row)
        colored_tile == [p \in Pixels |-> apply_erosion_colormap(tile_scalar[p])]
        img == MaskedImage(colored_tile, geom, x, mask_raises)
    IN  IF west >= east THEN ReturnsNone("invalid_bounds")
        ELSE IF TileRight(x) < west \/ TileLeft(x) > east
            THEN ReturnsNone("no_overlap")
        ELSE IF reproject_raises THEN ReturnsNone("reproject_failed")
        ELSE IF ~AnyFinite(row) THEN ReturnsNone("no_finite")
        ELSE IF ~AnyPositive(tile_scalar) THEN ReturnsNone("no_positive")
        ELSE IF ~AnyOpaque(colored_tile) THEN ReturnsNone("no_visible")
        ELSE [img EXCEPT !.scalar = tile_scalar]

render_tile(row, x, bounds, geom, reproject_raises, mask_raises) ==
    LET west == bounds[1]
        east == bounds[2]
        tile_scalar == clamp_negative(row)
        colored_tile == [p \in Pixels |-> apply_erosion_colormap(tile_scalar[p])]
        img == MaskedImage(colored_tile, geom, x, mask_raises)
    IN  IF west >= east THEN ReturnsNone("invalid_bounds")
        ELSE IF TileRight(x) <= west \/ TileLeft(x) >= east
            THEN ReturnsNone("no_overlap")
        ELSE IF reproject_raises THEN ReturnsNone("reproject_failed")
        ELSE IF ~AnyFinite(row) THEN ReturnsNone("no_finite")
        ELSE IF ~AnyPositive(tile_scalar) THEN ReturnsNone("no_positive")
        ELSE IF ~AnyOpaque(colored_tile) THEN ReturnsNone("no_visible")
        ELSE [img EXCEPT !.scalar = tile_scalar]

(***************************************************************************)
(* _iter_tiles_covering_bounds: the bounds are padded by 1e-9 degree (half *)
(* a unit here, so the computation is in half units) and mercantile.tiles  *)
(* truncates them to the world.                                            *)
(***************************************************************************)
WorldUnits == NumTiles * TileUnits

IterTilesInside(bounds) ==
    LET first == CeilDiv(Min(bounds[1], bounds[2]), TileUnits)
        last == FloorDiv(Max(bounds[1], bounds[2]), TileUnits) - 1
    IN  [i \in 1..(last - first + 1) |-> first + i - 1]

iter_tiles_covering_bounds(bounds) ==
    LET lon_min == 2 * Min(bounds[1], bounds[2]) - 1
        lon_max == 2 * Max(bounds[1], bounds[2]) + 1
        first == FloorDiv(Max(lon_min, 0), 2 * TileUnits)
        last == Min(FloorDiv(Min(lon_max, 2 * WorldUnits), 2 * TileUnits), NumTiles - 1)
    IN  [i \in 1..(last - first + 1) |-> first + i - 1]

(***************************************************************************)
(* SpecTiles: _generate_tiles_for_zoom on one zoom level, for every        *)
(* geometry and raster bounds of the bounded sets.                         *)
(***************************************************************************)
Coords == {0, 1, 2, TileUnits - 1, TileUnits, TileUnits + 2, WorldUnits}
Intervals == {r \in Coords \X Coords : r[1] < r[2]}
Part(ext, holes) == [ext |-> ext, holes |-> holes]
Geometry(type, parts) == [type |-> type, parts |-> parts]

\* a part with a hole that spans the zoom level, and a part inside that hole
Lake == Part(<<0, WorldUnits>>, <<<<1, WorldUnits - 1>>>>)
Island == Part(<<2, TileUnits + 1>>, <<>>)

Geometries ==
    {Geometry("Polygon", <<Part(r, <<>>)>>) : r \in Intervals}
    \cup {Geometry("MultiPolygon", <<Lake, Island>>),
          Geometry("MultiPolygon", <<Island, Lake>>)}
    \cup {Geometry("Polygon", <<Part(rh[1], <<rh[2]>>)>>) :
            rh \in {q \in Intervals \X Intervals :
                        q[1][1] < q[2][1] /\ q[2][2] < q[1][2]}}
    \cup {Geometry("MultiPolygon", <<Part(rr[1], <<>>), Part(rr[2], <<>>)>>) :
            rr \in {q \in Intervals \X Intervals : q[1][2] < q[2][1]}}
    \cup {Geometry("LineString", <<Part(<<0, TileUnits>>, <<>>)>>)}

RasterBounds ==
    {<<0, WorldUnits>>, <<0, TileUnits>>, <<1, TileUnits + 1>>,
     <<TileUnits, TileUnits>>}

\* values reproject can leave in a pixel
TilePixelValues == {NaN, PosInf, NegInf, Num(-5), Num(0), Num(25)}
Rows == [Pixels -> TilePixelValues]

\* what can happen to one tile: <<row, reproject raises, mask builder raises>>;
\* the row does not matter when reproject raises, the mask builder runs only
\* when a geometry was given
RenderInputs(geom) ==
    {<<row, FALSE, mr>> : row \in Rows,
                          mr \in IF geom = NoneRec THEN {FALSE} ELSE BOOLEAN}
    \cup {<<[p \in Pixels |-> NaN], TRUE, FALSE>>}

Render(x, in) == render_tile(in[1], x, data_bounds, geometry_json, in[2], in[3])

InitTiles ==
    /\ AnalyzeIdle
    /\ RasterIdle
    /\ RestIdle
    /\ tpc = "loop"
    /\ geometry_json \in Geometries \cup {NoneRec}
    /\ data_bounds \in RasterBounds
    /\ tile_keys = iter_tiles_covering_bounds(data_bounds)
    /\ last_tile = NoneRec
    /\ written = {}
    /\ tiles_generated = 0

TileResult(x, r, saved) ==
    [key |-> x, saved |-> saved, error |-> None, outcome |-> r.outcome,
     scalar |-> r.scalar, colored |-> r.colored, mask |-> r.mask,
     image |-> r.image]

InZoomLoop == tpc = "loop" /\ tile_keys # <<>>

\* lines 243-252: tile_image = self._render_tile(...) for the next tile key
RenderTile ==
    /\ InZoomLoop
    /\ \E in \in RenderInputs(geometry_json) :
        last_tile' = TileResult(Head(tile_keys), Render(Head(tile_keys), in), FALSE)
    /\ tpc' = "rendered"
    /\ UNCHANGED <<geometry_json, data_bounds, tile_keys, written,
                   tiles_generated, analyzeVars, rasterVars,
                   restVars>>

\* lines 254-255: tile_image is None, the loop continues with the next key
Continue ==
    /\ tpc = "rendered"
    /\ last_tile.outcome # "image"
    /\ tile_keys' = Tail(tile_keys)
    /\ last_tile' = NoneRec
    /\ tpc' = "loop"
    /\ UNCHANGED <<geometry_json, data_bounds, written, tiles_generated,
                   analyzeVars, rasterVars,
                   restVars>>

\* lines 257-260: the image is saved as {zoom}/{x}/{y}.png and counted
SaveTile ==
    /\ tpc = "rendered"
    /\ last_tile.outcome = "image"
    /\ last_tile' = [last_tile EXCEPT !.saved = TRUE]
    /\ written' = written \cup {last_tile.key}
    /\ tiles_generated' = tiles_generated + 1
    /\ tpc' = "saved"
    /\ UNCHANGED <<geometry_json, data_bounds, tile_keys, analyzeVars, rasterVars,
                   restVars>>

\* lines 257-258: tile_path.mkdir raises; nothing catches it in the loop and
\* _generate_tiles_for_zoom is left
MkdirFails ==
    /\ tpc = "rendered"
    /\ last_tile.outcome = "image"
    /\ last_tile' = [last_tile EXCEPT !.error = "mkdir"]
    /\ tpc' = "raised"
    /\ UNCHANGED <<geometry_json, data_bounds, tile_keys, written,
                   tiles_generated, analyzeVars, rasterVars,
                   restVars>>

\* line 259: tile_image.save raises; nothing catches it in the loop and
\* _generate_tiles_for_zoom is left
SaveFails ==
    /\ tpc = "rendered"
    /\ last_tile.outcome = "image"
    /\ last_tile' = [last_tile EXCEPT !.error = "save"]
    /\ tpc' = "raised"
    /\ UNCHANGED <<geometry_json, data_bounds, tile_keys, written,
                   tiles_generated, analyzeVars, rasterVars,
                   restVars>>

\* line 243: the loop takes the next key
NextTile ==
    /\ tpc = "saved"
    /\ tile_keys' = Tail(tile_keys)
    /\ last_tile' = NoneRec
    /\ tpc' = "loop"
    /\ UNCHANGED <<geometry_json, data_bounds, written, tiles_generated,
                   analyzeVars, rasterVars,
                   restVars>>

\* line 262
ZoomDone ==
    /\ tpc = "loop"
    /\ tile_keys = <<>>
    /\ tpc' = "done"
    /\ UNCHANGED <<geometry_json, data_bounds, tile_keys, last_tile, written,
                   tiles_generated, analyzeVars, rasterVars,
                   restVars>>

NextTiles ==
    \/ RenderTile
    \/ Continue
    \/ SaveTile
    \/ MkdirFails
    \/ SaveFails
    \/ NextTile
    \/ ZoomDone

SpecTiles == InitTiles /\ [][NextTiles]_vars

(***************************************************************************)
(* Claims on tile rendering.                                               *)
(***************************************************************************)
TileWritten == last_tile # NoneRec /\ last_tile.saved

\* C8: every tile PNG written holds at least one pixel with non-zero alpha,
\* with or without a clipping polygon.
C8_WrittenTileVisible ==
    TileWritten => \E p \in Pixels : Alpha(last_tile.image[p]) # 0

\* C9: with a clipping geometry, every pixel with non-zero alpha of a written
\* tile is a pixel the geometry rasterizes to 255 in that tile, on every path
\* through _render_tile.
C9_OpaqueOnlyInside ==
    (TileWritten /\ geometry_json # NoneRec) =>
        \A p \in Pixels :
            Alpha(last_tile.image[p]) # 0 =>
                /\ intersects(geometry_json, last_tile.key)
                /\ draw_mask(geometry_json, last_tile.key)[p] = 255

\* C10: apply_erosion_colormap maps every value that is <= 0 or non-finite
\* to (0,0,0,0).
C10_NonFiniteTransparent ==
    (last_tile # NoneRec /\ last_tile.colored # <<>>) =>
        \A p \in Pixels :
            (LeNum(last_tile.scalar[p], 0) \/ ~isfinite(last_tile.scalar[p])) =>
                last_tile.colored[p] = Transparent

\* _create_geometry_mask returned a mask for the tile at hand
MaskBuilt == last_tile # NoneRec /\ last_tile.mask # NoMask

IsPolygonal(geom) == geom.type \in {"Polygon", "MultiPolygon"}

\* C16: the mask of a tile that does not intersect the polygon is 0 in every
\* pixel; the mask of a tile that lies wholly inside a part of a polygon
\* without holes is 255 in every pixel.
C16_MaskOutsideAndInside ==
    MaskBuilt =>
        LET x == last_tile.key
            parts == geometry_json.parts
        IN  /\ ~intersects(geometry_json, x) => last_tile.mask = ZeroMask
            /\ ( /\ IsPolygonal(geometry_json)
                 /\ \A i \in DOMAIN parts : parts[i].holes = <<>>
                 /\ \E i \in DOMAIN parts :
                        parts[i].ext[1] <= TileLeft(x) /\ TileRight(x) <= parts[i].ext[2] )
                    => \A p \in Pixels : last_tile.mask[p] = 255

\* the second tile lies inside a polygon that starts in the first tile, and
\* its mask is 255 throughout
C16_Witness ==
    /\ MaskBuilt
    /\ last_tile.key = 1
    /\ geometry_json = Geometry("Polygon", <<Part(<<1, WorldUnits>>, <<>>)>>)
    /\ \A p \in Pixels : last_tile.mask[p] = 255

\* the extent of pixel p of tile x on the x axis
PixelWidth == TileUnits \div tile_size
PixelLo(p, x) == TileLeft(x) + (p - 1) * PixelWidth
PixelHi(p, x) == TileLeft(x) + p * PixelWidth

\* the pixel lies strictly inside the ring; the pixel is at least one pixel
\* away from the ring (the pixels a ring's edge is rasterized to are left out)
StrictlyIn(p, x, ring) == ring[1] < PixelLo(p, x) /\ PixelHi(p, x) < ring[2]
ClearOf(p, x, ring) ==
    \/ PixelHi(p, x) + PixelWidth <= ring[1]
    \/ ring[2] + PixelWidth <= PixelLo(p, x)

\* the pixel lies inside the outer ring of the part and clear of its holes
InsidePart(p, x, part) ==
    /\ part.ext[1] <= PixelLo(p, x)
    /\ PixelHi(p, x) <= part.ext[2]
    /\ \A h \in DOMAIN part.holes : ClearOf(p, x, part.holes[h])

\* the pixel is clear of the part: of its outer ring, or inside one of its holes
ClearOfPart(p, x, part) ==
    \/ ClearOf(p, x, part.ext)
    \/ \E h \in DOMAIN part.holes : StrictlyIn(p, x, part.holes[h])

\* C17: in the mask of a Polygon or MultiPolygon, a pixel inside the outer
\* ring of a part and clear of that part's holes is 255, whatever the position
\* of the part in the geometry, and a pixel strictly inside a hole that meets
\* no part is 0.
C17_HolesAndParts ==
    (MaskBuilt /\ IsPolygonal(geometry_json)) =>
        LET x == last_tile.key
            parts == geometry_json.parts
        IN  \A p \in Pixels :
                /\ (\E i \in DOMAIN parts : InsidePart(p, x, parts[i]))
                        => last_tile.mask[p] = 255
                /\ ( /\ \E i \in DOMAIN parts : \E h \in DOMAIN parts[i].holes :
                            StrictlyIn(p, x, parts[i].holes[h])
                     /\ \A i \in DOMAIN parts : ClearOfPart(p, x, parts[i]) )
                        => last_tile.mask[p] = 0

\* the tile keys the zoom loop goes through
EnumeratedKeys == iter_tiles_covering_bounds(data_bounds)

\* C18: every point of the raster's bounding box lies within the bounds of a
\* tile that _iter_tiles_covering_bounds enumerates, and the zoom loop goes
\* through the enumerated keys in order.
C18_TilesCoverBounds ==
    tpc # "idle" =>
        /\ \A u \in data_bounds[1]..data_bounds[2] :
                \E i \in DOMAIN EnumeratedKeys :
                    /\ TileLeft(EnumeratedKeys[i]) <= u
                    /\ u <= TileRight(EnumeratedKeys[i])
        /\ \E n \in 1..(Len(EnumeratedKeys) + 1) :
                tile_keys = SubSeq(EnumeratedKeys, n, Len(EnumeratedKeys))

\* a raster whose east edge is the edge between two tiles: the loop went
\* through both tiles and wrote the one that overlaps the raster
C18_Witness ==
    /\ data_bounds = <<0, TileUnits>>
    /\ EnumeratedKeys = <<0, 1>>
    /\ tpc = "done"
    /\ written = {0}

\* the tile and the raster bounds have more than an edge in common
PositiveOverlap(x, bounds) ==
    Max(TileLeft(x), bounds[1]) < Min(TileRight(x), bounds[2])

\* outcomes of _render_tile that are reached only past the call of reproject
Resampled(outcome) ==
    outcome \in {"reproject_failed", "no_finite", "no_positive", "no_visible",
                 "image"}

\* C26: a tile that does not overlap the raster bounds with positive area,
\* one that only touches them included, is never handed to reproject and
\* never written, and the count of the zoom level is the number of files
\* written for it.
C26_OverlapBeforeResampling ==
    /\ last_tile # NoneRec =>
            (~PositiveOverlap(last_tile.key, data_bounds)
                => ~Resampled(last_tile.outcome) /\ ~last_tile.saved)
    /\ \A x \in written : PositiveOverlap(x, data_bounds)
    /\ tiles_generated = Cardinality(written)

\* the raster ends on the edge between two tiles: the first tile has been
\* written and counted, the second one, which only touches the raster, was
\* enumerated and turned down by the overlap test
C26_Witness ==
    /\ data_bounds = <<0, TileUnits>>
    /\ written = {0}
    /\ tiles_generated = 1
    /\ last_tile # NoneRec
    /\ last_tile.key = 1
    /\ last_tile.outcome = "no_overlap"

\* C20: a failure to write the PNG of a tile does not end the zoom level,
\* the loop goes on with the remaining tile keys; only a failure to create the
\* tile's directory ends it.
C20_SaveFailureNotFatal ==
    /\ (last_tile # NoneRec /\ last_tile.error = "save") => tpc # "raised"
    /\ tpc = "raised" => last_tile.error = "mkdir"

(***************************************************************************)
(* SpecColormap: apply_erosion_colormap on every array of the bounded set. *)
(***************************************************************************)
\* values on, next to and between the band thresholds, and the values that
\* are no erosion rate
ColormapValues ==
    {NaN, PosInf, NegInf, Num(-5), Num(0)}
        \cup {Num(n) : n \in {1, 49, 50, 51, 99, 100, 101, 149, 150, 151, 9000}}

InitColormap ==
    /\ AnalyzeIdle
    /\ RasterIdle
    /\ TilesIdle
    /\ SamplesIdle
    /\ GridIdle
    /\ ExtraIdle
    /\ cm_data \in [Pixels -> ColormapValues]
    /\ cm_colored = <<>>

\* lines 447-472
ApplyColormap ==
    /\ cm_colored = <<>>
    /\ cm_colored' = [p \in Pixels |-> apply_erosion_colormap(cm_data[p])]
    /\ UNCHANGED <<cm_data, analyzeVars, rasterVars, tileVars, sampleVars,
                   gridVars, extraVars>>

NextColormap == ApplyColormap

SpecColormap == InitColormap /\ [][NextColormap]_vars

(***************************************************************************)
(* Claims on apply_erosion_colormap.                                       *)
(***************************************************************************)
Bands == 1..4

\* the half-open intervals (0,50), [50,100), [100,150), [150,infinity)
InBand(b, n) ==
    CASE b = 1 -> 0 < n /\ n < 50
      [] b = 2 -> 50 <= n /\ n < 100
      [] b = 3 -> 100 <= n /\ n < 150
      [] b = 4 -> 150 <= n

\* the masks of lines 454, 458, 462 and 466 and the colours assigned under them
BandMask(b, x) ==
    CASE b = 1 -> GtNum(x, 0) /\ LtNum(x, 50) /\ ~nodata_mask(x)
      [] b = 2 -> GeNum(x, 50) /\ LtNum(x, 100) /\ ~nodata_mask(x)
      [] b = 3 -> GeNum(x, 100) /\ LtNum(x, 150) /\ ~nodata_mask(x)
      [] b = 4 -> GeNum(x, 150) /\ ~nodata_mask(x)

BandColor(b) ==
    CASE b = 1 -> Green
      [] b = 2 -> Yellow
      [] b = 3 -> Orange
      [] b = 4 -> Red

\* the four band assignments applied to one pixel in the given order
RECURSIVE AssignBands(_, _, _, _)
AssignBands(c, x, order, i) ==
    IF i > Len(order) THEN c
    ELSE AssignBands(IF BandMask(order[i], x) THEN BandColor(order[i]) ELSE c,
                     x, order, i + 1)

BandOrders == {o \in [Bands -> Bands] : \A a, b \in Bands : a # b => o[a] # o[b]}

\* C11: every finite value > 0 is assigned the colour of exactly one of the
\* bands (0,50), [50,100), [100,150), [150,infinity), a value equal to 50, 100
\* or 150 that of the upper band; the four band colours are pairwise distinct
\* with non-zero alpha; the colour is the same whatever the order in which the
\* four band assignments are applied.
C11_FourBands ==
    cm_colored # <<>> =>
        \A p \in Pixels :
            LET x == cm_data[p]
            IN  (isfinite(x) /\ x.v > 0) =>
                    /\ Cardinality({b \in Bands : InBand(b, x.v)}) = 1
                    /\ \A b \in Bands :
                            InBand(b, x.v) <=> cm_colored[p] = BandColor(b)
                    /\ x.v = 50 => cm_colored[p] = Yellow
                    /\ x.v = 100 => cm_colored[p] = Orange
                    /\ x.v = 150 => cm_colored[p] = Red
                    /\ \A a, b \in Bands : a # b => BandColor(a) # BandColor(b)
                    /\ \A b \in Bands : Alpha(BandColor(b)) # 0
                    /\ \A o \in BandOrders :
                            AssignBands(Transparent, x, o, 1) = cm_colored[p]

\* an array holding the threshold 50 and the value just below it was coloured
C11_Witness ==
    /\ cm_colored # <<>>
    /\ \E p, q \in Pixels :
        /\ cm_data[p] = Num(50) /\ cm_colored[p] = Yellow
        /\ cm_data[q] = Num(49) /\ cm_colored[q] = Green

(***************************************************************************)
(* SpecSamples: _generate_from_samples, from the features sampleRegions    *)
(* returns to the array and bounds handed to _numpy_to_geotiff.  Bounds    *)
(* are <<min_lon, min_lat, max_lon, max_lat>>; the box is two units per    *)
(* grid step wide and four units per grid step high, so that the centres   *)
(* of the grid points are whole numbers.                                   *)
(***************************************************************************)
\* line 186
grid_size == SampleGrid

SampleIdx == 0..(grid_size * grid_size - 1)
SampleValues == {7, 9}
Cells == (0..(grid_size - 1)) \X (0..(grid_size - 1))

SampleBounds == <<4, 10, 4 + 2 * grid_size, 10 + 4 * grid_size>>

\* lines 200-201 and 207-208: centre of grid point number k along an axis
\* that runs from lo to hi
point_centre(k, lo, hi) == lo + ((2 * k + 1) * (hi - lo)) \div (2 * grid_size)

\* lines 211-219: filterBounds drops the points outside the geometry and
\* sampleRegions those on masked pixels; each feature keeps its idx
FeatureSets == UNION {[S -> SampleValues] : S \in SUBSET SampleIdx}

\* lines 222-232: data[j, i] = value with i = idx // grid_size and
\* j = idx % grid_size; the array is indexed <<row, column>>
sampled_data(features) ==
    [rc \in Cells |->
        IF \E idx \in DOMAIN features :
                idx % grid_size = rc[1] /\ idx \div grid_size = rc[2]
        THEN LET idx == CHOOSE k \in DOMAIN features :
                            k % grid_size = rc[1] /\ k \div grid_size = rc[2]
             IN  features[idx]
        ELSE 0]

\* _numpy_to_geotiff, line 418: from_bounds(west, south, east, north, width,
\* height) puts row 0 at the north edge and column 0 at the west edge; the
\* cell of the raster that contains the point (lon, lat)
cell_col(lon, bounds, width) == ((lon - bounds[1]) * width) \div (bounds[3] - bounds[1])
cell_row(lat, bounds, height) == ((bounds[4] - lat) * height) \div (bounds[4] - bounds[2])

InitSamples ==
    /\ AnalyzeIdle
    /\ RasterIdle
    /\ TilesIdle
    /\ ColormapIdle
    /\ GridIdle
    /\ ExtraIdle
    /\ samples \in {[bounds |-> SampleBounds, features |-> f] : f \in FeatureSets}
    /\ sampled_raster = NoneRec

\* lines 221-249: the array is filled and handed, with the bounds, to the
\* pickle and to _numpy_to_geotiff
GenerateFromSamples ==
    /\ sampled_raster = NoneRec
    /\ sampled_raster' = [data |-> sampled_data(samples.features),
                          bounds |-> samples.bounds]
    /\ UNCHANGED <<samples, analyzeVars, rasterVars, tileVars, colorVars,
                   gridVars, extraVars>>

NextSamples == GenerateFromSamples

SpecSamples == InitSamples /\ [][NextSamples]_vars

(***************************************************************************)
(* Claims on the sampled raster.                                           *)
(***************************************************************************)
\* the cell of the written raster that contains the centre of the grid point
\* of feature idx
CellOfSample(idx) ==
    LET b == sampled_raster.bounds
        i == idx \div grid_size
        j == idx % grid_size
    IN  <<cell_row(point_centre(j, b[2], b[4]), b, grid_size),
          cell_col(point_centre(i, b[1], b[3]), b, grid_size)>>

\* C12: in the raster of the sampling fallback, the cell whose extent under
\* the raster's transform contains the centre of a sampled grid point holds
\* the value sampled there, and every cell without a sample holds 0.
C12_SampleInItsCell ==
    sampled_raster # NoneRec =>
        /\ \A idx \in DOMAIN samples.features :
                sampled_raster.data[CellOfSample(idx)] = samples.features[idx]
        /\ \A rc \in Cells :
                (\A idx \in DOMAIN samples.features : CellOfSample(idx) # rc)
                    => sampled_raster.data[rc] = 0

(***************************************************************************)
(* SpecGrid: the parallel sampling of compute_detailed_grid, lines         *)
(* 1015-1051.  The calling thread submits the batches and collects the     *)
(* futures through as_completed; each batch runs sample_batch in a worker  *)
(* thread of the executor (max_workers is never below the number of        *)
(* batches with the presets).  A remote call may return features, fail     *)
(* (sample_batch then returns []), return after the 45 s of line 1044, or  *)
(* never return.                                                           *)
(***************************************************************************)
Batch(state, starts, overdue, features) ==
    [state |-> state, starts |-> starts, overdue |-> overdue, features |-> features]

BatchIds == DOMAIN batch_status

InitGrid ==
    /\ AnalyzeIdle
    /\ RasterIdle
    /\ TilesIdle
    /\ ColormapIdle
    /\ SamplesIdle
    /\ ExtraIdle
    /\ gpc = "submit"
    /\ batch_status = <<>>
    /\ all_samples = {}

gridFrame == <<analyzeVars, rasterVars, tileVars, colorVars, sampleVars,
               extraVars>>

\* lines 1034-1039: one future per batch
SubmitBatches ==
    /\ gpc = "submit"
    /\ \E n \in 1..MaxBatches :
        batch_status' = [b \in 1..n |-> Batch("queued", 0, FALSE, FALSE)]
    /\ gpc' = "collect"
    /\ UNCHANGED <<all_samples, gridFrame>>

\* a worker thread takes the batch and issues the remote call (line 1021)
StartBatch(b) ==
    /\ batch_status[b].state = "queued"
    /\ batch_status' = [batch_status EXCEPT ![b].state = "running",
                                            ![b].starts = @ + 1]
    /\ UNCHANGED <<gpc, all_samples, gridFrame>>

\* the remote call of the batch has been running for more than the 45 s
TimeoutPasses(b) ==
    /\ batch_status[b].state = "running"
    /\ ~batch_status[b].overdue
    /\ batch_status' = [batch_status EXCEPT ![b].overdue = TRUE]
    /\ UNCHANGED <<gpc, all_samples, gridFrame>>

\* lines 1025-1030: getInfo returns the features, or raises and sample_batch
\* returns []; the future is done
BatchReturns(b) ==
    /\ batch_status[b].state = "running"
    /\ \E ok \in BOOLEAN :
        batch_status' = [batch_status EXCEPT ![b].state = "done",
                                             ![b].features = ok]
    /\ UNCHANGED <<gpc, all_samples, gridFrame>>

\* lines 1042-1048: as_completed yields a future that is done; result()
\* returns at once and the features are appended
Collect(b) ==
    /\ gpc = "collect"
    /\ batch_status[b].state = "done"
    /\ batch_status' = [batch_status EXCEPT ![b].state = "collected"]
    /\ all_samples' = IF batch_status[b].features
                      THEN all_samples \cup {b} ELSE all_samples
    /\ UNCHANGED <<gpc, gridFrame>>

\* lines 1042 and 1049-1050: as_completed is exhausted once every future was
\* yielded; the with block then leaves (no thread is left to wait for)
SamplingDone ==
    /\ gpc = "collect"
    /\ \A b \in BatchIds : batch_status[b].state = "collected"
    /\ gpc' = "done"
    /\ UNCHANGED <<batch_status, all_samples, gridFrame>>

NextGrid ==
    \/ SubmitBatches
    \/ \E b \in BatchIds : StartBatch(b)
    \/ \E b \in BatchIds : TimeoutPasses(b)
    \/ \E b \in BatchIds : BatchReturns(b)
    \/ \E b \in BatchIds : Collect(b)
    \/ SamplingDone

SpecGrid == InitGrid /\ [][NextGrid]_vars

(***************************************************************************)
(* Claims on the parallel sampling.                                        *)
(***************************************************************************)
\* the calling thread has a step to take, or is waiting for a batch that is
\* still within its timeout
CollectionCanProceed ==
    \/ ENABLED (\E b \in BatchIds : Collect(b))
    \/ ENABLED SamplingDone
    \/ \E b \in BatchIds :
            \/ batch_status[b].state = "queued"
            \/ (batch_status[b].state = "running" /\ ~batch_status[b].overdue)

\* C19: a batch whose remote call did not finish within the per-batch timeout
\* contributes no points to the result and is not started again, and the
\* calling thread is never left waiting for nothing but such batches.
C19_TimedOutBatchIsFailed ==
    /\ \A b \in BatchIds :
            /\ batch_status[b].overdue => b \notin all_samples
            /\ batch_status[b].starts <= 1
    /\ gpc = "collect" => CollectionCanProceed

(***************************************************************************)
(* SpecRuns: generation runs (generate_geotiff, then generate_tiles) that  *)
(* Celery workers execute at the same time.  A run is queued by            *)
(* app.py:722 for whatever the request names; a file is open between the   *)
(* call that opens it for writing and the call's return.                   *)
(***************************************************************************)
NumRuns == 2

RunIds == 1..NumRuns

RunAreas == {[area_type |-> "region", area_id |-> 1],
             [area_type |-> "district", area_id |-> 1]}

RunPeriods == {[year |-> 2020, end_year |-> 2020],
               [year |-> 2020, end_year |-> 2021]}

RunArgs == {[area |-> a, period |-> p] : a \in RunAreas, p \in RunPeriods}

\* f'{area_type}_{area_id}'
area_dir(a) == <<a.area_type, "_", a.area_id>>

\* str(year) if end_year == year else f"{year}-{end_year}"
period_label(p) == IF p.end_year = p.year THEN <<p.year>>
                   ELSE <<p.year, p.end_year>>

NoPath == [root |-> "none", area |-> <<>>, period |-> <<>>, rest |-> <<>>]

\* storage_path / 'geotiff' / f'{area_type}_{area_id}' / period_label / 'erosion.tif'
output_path(args) ==
    [root |-> "geotiff", area |-> area_dir(args.area),
     period |-> period_label(args.period), rest |-> <<>>]

\* tiles_dir / str(zoom) / str(tile.x) / f'{tile.y}.png'
tile_path(args, key) ==
    [root |-> "tiles", area |-> area_dir(args.area),
     period |-> period_label(args.period), rest |-> <<key.z, key.x, key.y>>]

\* the tiles mercantile enumerates for a run's raster, in the order of the
\* loops over zoom levels and tiles
RunTileKeys == <<[z |-> 6, x |-> 0, y |-> 0], [z |-> 6, x |-> 1, y |-> 0],
                 [z |-> 7, x |-> 0, y |-> 1]>>

InitRuns ==
    /\ AnalyzeIdle
    /\ RasterIdle
    /\ TilesIdle
    /\ ColormapIdle
    /\ SamplesIdle
    /\ GridIdle
    /\ ConfigIdle
    /\ LoadIdle
    /\ SourceIdle
    /\ TaskIdle
    /\ run_args \in [RunIds -> RunArgs]
    /\ run_pc = [r \in RunIds |-> "queued"]
    /\ run_open = [r \in RunIds |-> NoPath]
    /\ run_keys = [r \in RunIds |-> <<>>]

runFrame == <<analyzeVars, rasterVars, tileVars, colorVars, sampleVars,
              gridVars, configVars, loadVars, sourceVars, taskVars>>

\* a worker takes the task off the queue and enters generate_geotiff
StartRun(r) ==
    /\ run_pc[r] = "queued"
    /\ run_pc' = [run_pc EXCEPT ![r] = "raster"]
    /\ UNCHANGED <<run_args, run_open, run_keys, runFrame>>

\* rasterio.open(output_path, 'w') of the merge or of _numpy_to_geotiff
OpenGeotiff(r) ==
    /\ run_pc[r] = "raster"
    /\ run_open[r] = NoPath
    /\ run_open' = [run_open EXCEPT ![r] = output_path(run_args[r])]
    /\ UNCHANGED <<run_args, run_pc, run_keys, runFrame>>

\* the file is closed, generate_geotiff returns, generate_tiles enumerates
CloseGeotiff(r) ==
    /\ run_pc[r] = "raster"
    /\ run_open[r] # NoPath
    /\ run_open' = [run_open EXCEPT ![r] = NoPath]
    /\ run_pc' = [run_pc EXCEPT ![r] = "tiles"]
    /\ run_keys' = [run_keys EXCEPT ![r] = RunTileKeys]
    /\ UNCHANGED <<run_args, runFrame>>

\* tile_image.save(tile_path / f'{tile.y}.png') opens the file
OpenTile(r) ==
    /\ run_pc[r] = "tiles"
    /\ run_open[r] = NoPath
    /\ run_keys[r] # <<>>
    /\ run_open' = [run_open EXCEPT ![r] = tile_path(run_args[r], Head(run_keys[r]))]
    /\ UNCHANGED <<run_args, run_pc, run_keys, runFrame>>

\* save returns
CloseTile(r) ==
    /\ run_pc[r] = "tiles"
    /\ run_open[r] # NoPath
    /\ run_open' = [run_open EXCEPT ![r] = NoPath]
    /\ run_keys' = [run_keys EXCEPT ![r] = Tail(run_keys[r])]
    /\ UNCHANGED <<run_args, run_pc, runFrame>>

\* the zoom loops are over, generate_tiles returns
RunDone(r) ==
    /\ run_pc[r] = "tiles"
    /\ run_open[r] = NoPath
    /\ run_keys[r] = <<>>
    /\ run_pc' = [run_pc EXCEPT ![r] = "done"]
    /\ UNCHANGED <<run_args, run_open, run_keys, runFrame>>

NextRuns ==
    \/ \E r \in RunIds : StartRun(r)
    \/ \E r \in RunIds : OpenGeotiff(r)
    \/ \E r \in RunIds : CloseGeotiff(r)
    \/ \E r \in RunIds : OpenTile(r)
    \/ \E r \in RunIds : CloseTile(r)
    \/ \E r \in RunIds : RunDone(r)

SpecRuns == InitRuns /\ [][NextRuns]_vars

(***************************************************************************)
(* Claims on concurrent runs.                                              *)
(***************************************************************************)
TileKeyIdx == 1..Len(RunTileKeys)

\* C21: distinct tile keys of one run have distinct paths, and no two runs
\* that execute at the same time ever have the same output file open for
\* writing, whatever their areas and periods are.
C21_NoSharedOutputPath ==
    /\ \A r \in DOMAIN run_args : \A i, j \in TileKeyIdx :
            RunTileKeys[i] # RunTileKeys[j] =>
                tile_path(run_args[r], RunTileKeys[i])
                    # tile_path(run_args[r], RunTileKeys[j])
    /\ \A r1, r2 \in DOMAIN run_open :
            (r1 # r2 /\ run_open[r1] # NoPath) => run_open[r1] # run_open[r2]

\* two runs for the same area and period have erosion.tif open together
C21_SharedGeotiff ==
    \E r1, r2 \in DOMAIN run_open :
        /\ r1 # r2
        /\ run_args[r1] = run_args[r2]
        /\ run_open[r1] = output_path(run_args[r1])
        /\ run_open[r2] = run_open[r1]

(***************************************************************************)
(* rusle_config.py: DEFAULT_RUSLE_CONFIG, _merge_dict, RUSLEConfig.        *)
(* Dicts and lists are objects of a heap, so that two names for one object *)
(* and a copy of it are different things; a number x of the code is the    *)
(* integer 100 * x.                                                        *)
(***************************************************************************)
IntV(n) == [t |-> "int", i |-> n, s |-> ""]
BoolV(b) == [t |-> "bool", i |-> IF b THEN 1 ELSE 0, s |-> ""]
StrV(x) == [t |-> "str", i |-> 0, s |-> x]
NoneV == [t |-> "none", i |-> 0, s |-> ""]
\* a reference to the heap object o
Ref(o) == [t |-> "ref", i |-> o, s |-> ""]
\* a dict and a list as values: what a literal of the code denotes
DictT(f) == [t |-> "dict", f |-> f]
ListT(q) == [t |-> "list", f |-> q]

Breakpoint(max_slope, value) == [max_slope |-> max_slope, value |-> value]
ErosionClass(key, label, min, max) ==
    [key |-> StrV(key), label |-> StrV(label), min |-> min, max |-> max]

DEFAULT_RUSLE_CONFIG ==
    DictT([
        r_factor |-> DictT([coefficient |-> IntV(56),
                            use_long_term_default |-> BoolV(TRUE)]),
        k_factor |-> DictT([sand_fraction_multiplier |-> IntV(20),
                            soc_to_organic_multiplier |-> IntV(2)]),
        ls_factor |-> DictT([grid_size |-> IntV(100000),
                             flow_exponent |-> IntV(40)]),
        c_factor |-> DictT([class_map |-> DictT([c12 |-> IntV(15),
                                                 c16 |-> IntV(40)]),
                            default_value |-> IntV(0)]),
        p_factor |-> DictT([default_value |-> IntV(100),
                            cropland_class |-> IntV(1200),
                            breakpoints |-> ListT(<<
                                Breakpoint(IntV(500), IntV(10)),
                                Breakpoint(IntV(1000), IntV(12)),
                                Breakpoint(IntV(2000), IntV(14)),
                                Breakpoint(IntV(3000), IntV(19)),
                                Breakpoint(IntV(5000), IntV(25)),
                                Breakpoint(IntV(10000), IntV(33)),
                                Breakpoint(NoneV, IntV(33))>>)]),
        erosion_classes |-> ListT(<<
            ErosionClass("very_low", "Very Low", IntV(0), IntV(500)),
            ErosionClass("low", "Low", IntV(500), IntV(1500)),
            ErosionClass("moderate", "Moderate", IntV(1500), IntV(3000)),
            ErosionClass("severe", "Severe", IntV(3000), IntV(5000)),
            ErosionClass("excessive", "Excessive", IntV(5000), NoneV)>>),
        logging |-> DictT([include_config_snapshot |-> BoolV(TRUE)])])

\* the value a reference stands for, with every dict and list under it
RECURSIVE Tree(_, _)
Tree(h, v) ==
    IF v.t # "ref" THEN v
    ELSE LET o == h[v.i]
         IN  IF o.kind = "dict"
             THEN DictT([k \in DOMAIN o.f |-> Tree(h, o.f[k])])
             ELSE ListT(o.f)

SetKey(f, key, v) == [x \in DOMAIN f \cup {key} |-> IF x = key THEN v ELSE f[x]]

\* new objects for a value: the heap with them and the reference to the
\* outermost one
RECURSIVE Alloc(_, _)
RECURSIVE AllocFields(_, _, _, _)
AllocFields(h, fields, keys, done) ==
    IF keys = {} THEN [h |-> h, f |-> done]
    ELSE LET key == CHOOSE k \in keys : TRUE
             a == Alloc(h, fields[key])
         IN  AllocFields(a.h, fields, keys \ {key}, SetKey(done, key, a.v))

Alloc(h, tree) ==
    IF tree.t = "dict" THEN
        LET a == AllocFields(h, tree.f, DOMAIN tree.f, [k \in {} |-> NoneV])
        IN  [h |-> Append(a.h, [kind |-> "dict", f |-> a.f]),
             v |-> Ref(Len(a.h) + 1)]
    ELSE IF tree.t = "list" THEN
        [h |-> Append(h, [kind |-> "list", f |-> tree.f]), v |-> Ref(Len(h) + 1)]
    ELSE [h |-> h, v |-> tree]

\* copy.copy: a new outermost object whose entries are the old references
CopyShallow(h, v) ==
    IF v.t # "ref" THEN [h |-> h, v |-> v]
    ELSE [h |-> Append(h, h[v.i]), v |-> Ref(Len(h) + 1)]

\* copy.deepcopy
deepcopy(h, v) == Alloc(h, Tree(h, v))

\* isinstance(value, Mapping) and key in base and
\* isinstance(base[key], MutableMapping)
MergesInto(h, base, key, value) ==
    /\ value.t = "dict"
    /\ key \in DOMAIN h[base].f
    /\ h[base].f[key].t = "ref"
    /\ h[h[base].f[key].i].kind = "dict"

\* lines 119-129: the loop over overrides.items()
RECURSIVE MergeItems(_, _, _, _)
MergeItems(h, base, overrides, keys) ==
    IF keys = {} THEN h
    ELSE LET key == CHOOSE k \in keys : TRUE
             value == overrides[key]
             merged ==
                IF MergesInto(h, base, key, value)
                THEN MergeItems(h, h[base].f[key].i, value.f, DOMAIN value.f)
                ELSE LET a == deepcopy(h, value)
                     IN  [a.h EXCEPT ![base] =
                            [@ EXCEPT !.f = SetKey(@, key, a.v)]]
         IN  MergeItems(merged, base, overrides, keys \ {key})

_merge_dict(h, base, overrides) ==
    MergeItems(h, base, overrides.f, DOMAIN overrides.f)

\* 'if overrides:' is false for None and for an empty dict
Truthy(overrides) == overrides.t = "dict" /\ DOMAIN overrides.f # {}

\* the module's dict literal is object DefaultRef of the initial heap
DefaultHeap == Alloc(<<>>, DEFAULT_RUSLE_CONFIG)
DefaultRef == DefaultHeap.v

\* RUSLEConfig.__init__(overrides): the heap after it and self._data
RUSLEConfig_init(h, overrides) ==
    LET data == deepcopy(h, DefaultRef)
    IN  [h |-> IF Truthy(overrides) THEN _merge_dict(data.h, data.v.i, overrides)
               ELSE data.h,
         v |-> data.v]

build_config(h, overrides) == RUSLEConfig_init(h, overrides)

\* RUSLEConfig.to_dict
to_dict(h, data) == deepcopy(h, data)

\* RUSLEConfig.get(path, default) with path = section.key, on the contents
config_get(h, data, section, key, default) ==
    LET top == h[data.i].f
    IN  IF section \in DOMAIN top /\ top[section].t = "ref"
           /\ h[top[section].i].kind = "dict"
           /\ key \in DOMAIN h[top[section].i].f
        THEN Tree(h, h[top[section].i].f[key])
        ELSE default

\* RUSLEConfig.get(path, default) with a one-part path
config_get_top(h, data, key, default) ==
    LET top == h[data.i].f
    IN  IF key \in DOMAIN top THEN Tree(h, top[key]) ELSE default

(***************************************************************************)
(* rusle_calculator.py: the parameters RUSLECalculator derives from its    *)
(* configuration.                                                          *)
(***************************************************************************)
\* entry.get(key, default)
entry_get(entry, key, default) ==
    IF key \in DOMAIN entry THEN entry[key] ELSE default

\* float(x) succeeds
IsNumber(v) == v.t \in {"int", "bool"}

\* the list as it was given
Unsorted(q, field) == q

\* list.sort(key=lambda item: item[field]): stable, ascending
RECURSIVE sort_by(_, _)
sort_by(q, field) ==
    IF q = <<>> THEN <<>>
    ELSE LET front == sort_by(SubSeq(q, 1, Len(q) - 1), field)
             e == q[Len(q)]
             n == Cardinality({j \in DOMAIN front : front[j][field].i <= e[field].i})
         IN  SubSeq(front, 1, n) \o <<e>> \o SubSeq(front, n + 1, Len(front))

Segment(min, max, value) == [min |-> min, max |-> max, value |-> value]

default_breakpoints ==
    <<Segment(NoneV, IntV(500), IntV(10)), Segment(NoneV, IntV(1000), IntV(12)),
      Segment(NoneV, IntV(2000), IntV(14)), Segment(NoneV, IntV(3000), IntV(19)),
      Segment(NoneV, IntV(5000), IntV(25)), Segment(NoneV, IntV(10000), IntV(33)),
      Segment(NoneV, NoneV, IntV(33))>>

IsFiniteBreakpoint(entry) ==
    /\ IsNumber(entry_get(entry, "value", NoneV))
    /\ IsNumber(entry_get(entry, "max_slope", NoneV))

IsInfiniteBreakpoint(entry) ==
    /\ IsNumber(entry_get(entry, "value", NoneV))
    /\ entry_get(entry, "max_slope", NoneV) = NoneV

AsSegment(entry) ==
    Segment(NoneV, entry_get(entry, "max_slope", NoneV), entry.value)

AsSegments(q) == [j \in DOMAIN q |-> AsSegment(q[j])]

\* lines 201-254
_prepare_p_factor_segments(raw_breakpoints) ==
    LET raw == IF raw_breakpoints.t = "list" THEN raw_breakpoints.f ELSE <<>>
        finite == AsSegments(SelectSeq(raw, IsFiniteBreakpoint))
        infinite == AsSegments(SelectSeq(raw, IsInfiniteBreakpoint))
        none == finite = <<>> /\ infinite = <<>>
        finite_segments ==
            sort_by(IF none THEN SubSeq(default_breakpoints, 1, Len(default_breakpoints) - 1)
                    ELSE finite, "max")
        infinite_segments ==
            IF none THEN <<default_breakpoints[Len(default_breakpoints)]>>
            ELSE infinite
        all == finite_segments \o infinite_segments
    IN  [j \in DOMAIN all |->
            Segment(IF j = 1 THEN NoneV ELSE all[j - 1].max, all[j].max, all[j].value)]

default_classes ==
    <<ErosionClass("very_low", "Very Low", IntV(0), IntV(500)),
      ErosionClass("low", "Low", IntV(500), IntV(1500)),
      ErosionClass("moderate", "Moderate", IntV(1500), IntV(3000)),
      ErosionClass("severe", "Severe", IntV(3000), IntV(5000)),
      ErosionClass("excessive", "Excessive", IntV(5000), NoneV)>>

\* 'if not key: continue' keeps the entries with a non-empty key
HasKey(entry) ==
    LET key == entry_get(entry, "key", NoneV)
    IN  key.t = "str" /\ key.s # ""

Processed(entry) ==
    [key |-> entry.key,
     label |-> entry_get(entry, "label", entry.key),
     min |-> entry_get(entry, "min", IntV(0)),
     max |-> entry_get(entry, "max", NoneV)]

\* lines 256-288
_prepare_erosion_classes(classes) ==
    LET raw == IF classes.t = "list" THEN classes.f ELSE <<>>
        kept == SelectSeq(raw, HasKey)
        processed == [j \in DOMAIN kept |-> Processed(kept[j])]
    IN  sort_by(IF processed = <<>> THEN default_classes ELSE processed, "min")

\* RUSLECalculator.__init__(config) with a mapping or None: build_config,
\* then _initialize_parameters
RUSLECalculator_init(h, overrides) ==
    LET config == build_config(h, overrides)
    IN  [h |-> config.h,
         config |-> config.v,
         p_factor_segments |->
            _prepare_p_factor_segments(
                config_get(config.h, config.v, "p_factor", "breakpoints", ListT(<<>>))),
         erosion_classes |->
            _prepare_erosion_classes(
                config_get_top(config.h, config.v, "erosion_classes", ListT(<<>>))),
         include_config_snapshot |->
            config_get(config.h, config.v, "logging", "include_config_snapshot",
                       BoolV(TRUE)).i # 0]

(***************************************************************************)
(* SpecConfig: configurations and calculators built one after the other    *)
(* in one interpreter, snapshots taken of them, and the caller writing     *)
(* into a snapshot it was given.                                           *)
(***************************************************************************)
MaxConfigs == 2
MaxSnapshots == 1

\* test_build_config_merges_nested_overrides_without_mutating_defaults,
\* with an override below c_factor.class_map
OvNested ==
    DictT([k_factor |-> DictT([sand_fraction_multiplier |-> IntV(35)]),
           ls_factor |-> DictT([grid_size |-> IntV(18000)]),
           c_factor |-> DictT([class_map |-> DictT([c16 |-> IntV(50)])])])

\* test_config_snapshot_returns_merged_data
OvCoefficient == DictT([r_factor |-> DictT([coefficient |-> IntV(70)])])

\* test_rusle_calculator_parameters_reflect_overrides
OvLists ==
    DictT([k_factor |-> DictT([sand_fraction_multiplier |-> IntV(15),
                               soc_to_organic_multiplier |-> IntV(2)]),
           p_factor |-> DictT([breakpoints |-> ListT(<<
                Breakpoint(IntV(800), IntV(20)),
                Breakpoint(NoneV, IntV(40))>>)]),
           erosion_classes |-> ListT(<<
                ErosionClass("low", "Low", IntV(0), IntV(1000)),
                ErosionClass("high", "High", IntV(1000), NoneV)>>),
           logging |-> DictT([include_config_snapshot |-> BoolV(FALSE)])])

\* the same kind of lists, not in ascending order
OvUnsorted ==
    DictT([p_factor |-> DictT([breakpoints |-> ListT(<<
                Breakpoint(NoneV, IntV(40)),
                Breakpoint(IntV(3000), IntV(25)),
                Breakpoint(IntV(800), IntV(20))>>)]),
           erosion_classes |-> ListT(<<
                ErosionClass("high", "High", IntV(1000), NoneV),
                ErosionClass("low", "Low", IntV(0), IntV(1000))>>)])

\* lists without an entry
OvEmptyLists ==
    DictT([p_factor |-> DictT([breakpoints |-> ListT(<<>>)]),
           erosion_classes |-> ListT(<<>>)])

\* lists with an entry the calculator cannot use: a class without a key, a
\* breakpoint whose value is no number
OvPartlyUsable ==
    DictT([p_factor |-> DictT([breakpoints |-> ListT(<<
                Breakpoint(IntV(800), StrV("steep")),
                Breakpoint(NoneV, IntV(40))>>)]),
           erosion_classes |-> ListT(<<
                [label |-> StrV("Unnamed"), min |-> IntV(0), max |-> IntV(1000)],
                ErosionClass("high", "High", IntV(1000), NoneV)>>)])

ConfigOverrides == {NoneV, OvNested, OvCoefficient}
CalculatorOverrides == {OvLists, OvUnsorted, OvEmptyLists, OvPartlyUsable}

InitConfig ==
    /\ AnalyzeIdle
    /\ RasterIdle
    /\ TilesIdle
    /\ ColormapIdle
    /\ SamplesIdle
    /\ GridIdle
    /\ RunsIdle
    /\ LoadIdle
    /\ SourceIdle
    /\ TaskIdle
    /\ heap = DefaultHeap.h
    /\ configs = <<>>
    /\ calculators = <<>>
    /\ snapshots = <<>>

configFrame == <<analyzeVars, rasterVars, tileVars, colorVars, sampleVars,
                 gridVars, runVars, loadVars, sourceVars, taskVars>>

\* build_config(overrides)
BuildConfig(overrides) ==
    /\ Len(configs) < MaxConfigs
    /\ LET config == build_config(heap, overrides)
       IN  /\ heap' = config.h
           /\ configs' = Append(configs, [data |-> config.v, overrides |-> overrides])
    /\ UNCHANGED <<calculators, snapshots, configFrame>>

\* RUSLECalculator(overrides)
NewCalculator(overrides) ==
    /\ Len(configs) < MaxConfigs
    /\ LET calc == RUSLECalculator_init(heap, overrides)
       IN  /\ heap' = calc.h
           /\ configs' = Append(configs, [data |-> calc.config, overrides |-> overrides])
           /\ calculators' = Append(calculators,
                [config |-> Len(configs) + 1,
                 p_factor_segments |-> calc.p_factor_segments,
                 erosion_classes |-> calc.erosion_classes,
                 include_config_snapshot |-> calc.include_config_snapshot])
    /\ UNCHANGED <<snapshots, configFrame>>

\* config.to_dict(), calculator.config_snapshot()
ToDict(c) ==
    /\ Len(snapshots) < MaxSnapshots
    /\ LET copy == to_dict(heap, configs[c].data)
       IN  /\ heap' = copy.h
           /\ snapshots' = Append(snapshots,
                [config |-> c, data |-> copy.v, mutated |-> FALSE])
    /\ UNCHANGED <<configs, calculators, configFrame>>

\* the caller assigns snapshot[section][key] = 99
WriteSnapshotKey(s, section, key) ==
    /\ LET top == heap[snapshots[s].data.i].f
       IN  /\ section \in DOMAIN top
           /\ top[section].t = "ref"
           /\ heap[top[section].i].kind = "dict"
           /\ heap[top[section].i].f[key] # IntV(99)
           /\ heap' = [heap EXCEPT ![top[section].i] =
                            [@ EXCEPT !.f = SetKey(@, key, IntV(99))]]
    /\ snapshots' = [snapshots EXCEPT ![s].mutated = TRUE]
    /\ UNCHANGED <<configs, calculators, configFrame>>

\* the caller calls snapshot['erosion_classes'].clear()
ClearSnapshotList(s) ==
    /\ LET top == heap[snapshots[s].data.i].f
       IN  /\ top["erosion_classes"].t = "ref"
           /\ heap[top["erosion_classes"].i].kind = "list"
           /\ heap[top["erosion_classes"].i].f # <<>>
           /\ heap' = [heap EXCEPT ![top["erosion_classes"].i] =
                            [@ EXCEPT !.f = <<>>]]
    /\ snapshots' = [snapshots EXCEPT ![s].mutated = TRUE]
    /\ UNCHANGED <<configs, calculators, configFrame>>

NextConfig ==
    \/ \E overrides \in ConfigOverrides : BuildConfig(overrides)
    \/ \E overrides \in CalculatorOverrides : NewCalculator(overrides)
    \/ \E c \in DOMAIN configs : ToDict(c)
    \/ \E s \in DOMAIN snapshots :
            WriteSnapshotKey(s, "k_factor", "sand_fraction_multiplier")
    \/ \E s \in DOMAIN snapshots : ClearSnapshotList(s)

SpecConfig == InitConfig /\ [][NextConfig]_vars

(***************************************************************************)
(* Claims on the configuration.                                            *)
(***************************************************************************)
\* result holds the override value at every key the overrides name, down to
\* the keys of nested sections, and the default at every other key
RECURSIVE OverridesApplied(_, _, _)
OverridesApplied(result, default, overrides) ==
    /\ result.t = "dict"
    /\ DOMAIN result.f = DOMAIN default.f \cup DOMAIN overrides.f
    /\ \A key \in DOMAIN result.f :
        IF key \notin DOMAIN overrides.f THEN result.f[key] = default.f[key]
        ELSE IF /\ overrides.f[key].t = "dict"
                /\ key \in DOMAIN default.f
                /\ default.f[key].t = "dict"
             THEN OverridesApplied(result.f[key], default.f[key], overrides.f[key])
             ELSE result.f[key] = overrides.f[key]

ConfigAsBuilt(c) ==
    LET now == Tree(heap, configs[c].data)
    IN  IF configs[c].overrides = NoneV THEN now = DEFAULT_RUSLE_CONFIG
        ELSE OverridesApplied(now, DEFAULT_RUSLE_CONFIG, configs[c].overrides)

\* C23: at any time, whatever was built or written into a snapshot since,
\* DEFAULT_RUSLE_CONFIG has its original contents, every configuration built
\* so far has the override value at every overridden nested key and the
\* default at every other key, and a snapshot nobody wrote into equals the
\* configuration it was taken of.
C23_BuildConfigMergesAndCopies ==
    heap # <<>> =>
        /\ Tree(heap, DefaultRef) = DEFAULT_RUSLE_CONFIG
        /\ \A c \in DOMAIN configs : ConfigAsBuilt(c)
        /\ \A s \in DOMAIN snapshots :
                ~snapshots[s].mutated =>
                    Tree(heap, snapshots[s].data)
                        = Tree(heap, configs[snapshots[s].config].data)

\* a configuration with a partly overridden section was built, another one
\* was built after it, and the caller wrote into a snapshot of the first
C23_Witness ==
    /\ Len(configs) = MaxConfigs
    /\ configs[1].overrides = OvNested
    /\ configs[2].overrides # OvNested
    /\ \E s \in DOMAIN snapshots :
            /\ snapshots[s].config = 1
            /\ snapshots[s].mutated
            /\ Tree(heap, snapshots[s].data) # Tree(heap, configs[1].data)

(***************************************************************************)
(* Claims on the calculator's parameters.                                  *)
(***************************************************************************)
Occurrences(q, x) == Cardinality({j \in DOMAIN q : q[j] = x})

\* the same entries, each as often, in whatever order
SameEntries(p, q) ==
    /\ Len(p) = Len(q)
    /\ \A j \in DOMAIN p : Occurrences(p, p[j]) = Occurrences(q, p[j])

AscendingBy(q, field) ==
    \A i, j \in DOMAIN q :
        (i < j /\ q[i][field] # NoneV /\ q[j][field] # NoneV)
            => q[i][field].i <= q[j][field].i

OpenEndedLast(q) ==
    \A i, j \in DOMAIN q : (i < j /\ q[i].max = NoneV) => q[j].max = NoneV

LowerBoundsChained(q) ==
    \A j \in DOMAIN q : q[j].min = IF j = 1 THEN NoneV ELSE q[j - 1].max

\* the (max, value) pairs of the segments
Pairs(q) == [j \in DOMAIN q |-> [max |-> q[j].max, value |-> q[j].value]]

BreakpointPairs(q) ==
    [j \in DOMAIN q |-> [max |-> entry_get(q[j], "max_slope", NoneV),
                         value |-> entry_get(q[j], "value", NoneV)]]

OverridesClasses(ov) == ov.t = "dict" /\ "erosion_classes" \in DOMAIN ov.f
OverridesBreakpoints(ov) ==
    /\ ov.t = "dict"
    /\ "p_factor" \in DOMAIN ov.f
    /\ "breakpoints" \in DOMAIN ov.f["p_factor"].f

\* the configuration holds the overriding lists as they were given
ListsReplaced(k) ==
    LET c == calculators[k].config
        ov == configs[c].overrides
        now == Tree(heap, configs[c].data)
    IN  /\ OverridesClasses(ov) =>
                now.f["erosion_classes"] = ov.f["erosion_classes"]
        /\ OverridesBreakpoints(ov) =>
                now.f["p_factor"].f["breakpoints"] = ov.f["p_factor"].f["breakpoints"]

SegmentsOrdered(k) ==
    /\ AscendingBy(calculators[k].p_factor_segments, "max")
    /\ OpenEndedLast(calculators[k].p_factor_segments)
    /\ LowerBoundsChained(calculators[k].p_factor_segments)

IsUsableBreakpoint(entry) ==
    IsFiniteBreakpoint(entry) \/ IsInfiniteBreakpoint(entry)

MaxRows == 3

Affine(a, b, c, d, e, f) == [a |-> a, b |-> b, c |-> c, d |-> d, e |-> e, f |-> f]

\* Affine.__mul__: the transform that applies n, then m
AffineMul(m, n) ==
    Affine(m.a * n.a + m.b * n.d, m.a * n.b + m.b * n.e,
           m.a * n.c + m.b * n.f + m.c,
           m.d * n.a + m.e * n.d, m.d * n.b + m.e * n.e,
           m.d * n.c + m.e * n.f + m.f)

translation(xoff, yoff) == Affine(1, 0, xoff, 0, 1, yoff)
scaling(sx, sy) == Affine(sx, 0, 0, 0, sy, 0)

\* the rows as they were read
KeepRows(data) == data

\* np.flipud
flipud(data) == [r \in DOMAIN data |-> data[Len(data) + 1 - r]]

\* rasterio.transform.array_bounds of an unrotated transform:
\* (west, south, east, north)
array_bounds(height, width, t) ==
    <<t.c, t.f + t.e * height, t.c + t.a * width, t.f>>

\* lines 164-187
_load_raster_data_webmercator(raster) ==
    LET flip == raster.transform.e > 0
        data == IF flip THEN flipud(raster.data) ELSE raster.data
        transform ==
            IF flip
            THEN AffineMul(AffineMul(raster.transform, translation(0, Len(data))),
                           scaling(1, -1))
            ELSE raster.transform
        bounds == array_bounds(Len(data), raster.width, transform)
        invalid == bounds[1] >= bounds[3] \/ bounds[2] >= bounds[4]
        west == IF invalid /\ bounds[1] > bounds[3] THEN bounds[3] ELSE bounds[1]
        east == IF invalid /\ bounds[1] > bounds[3] THEN bounds[1] ELSE bounds[3]
        south == IF invalid /\ bounds[2] > bounds[4] THEN bounds[4] ELSE bounds[2]
        north == IF invalid /\ bounds[2] > bounds[4] THEN bounds[2] ELSE bounds[4]
    IN  [data |-> data, transform |-> transform,
         bounds |-> <<west, south, east, north>>]

\* pixel heights and widths in metres, with either sign of the scales, and
\* origins on either side of the equator
RowValues == {10, 20}
YScales == {-2, -1, 1, 2}
XScales == {-1, 1, 2}
Origins == {-4, 0, 10}
Widths == {1, 2}

SourceRasters ==
    {[data |-> data, width |-> w, transform |-> Affine(a, 0, c, 0, e, f)] :
        data \in UNION {[1..h -> RowValues] : h \in 1..MaxRows},
        w \in Widths, a \in XScales, c \in {0}, e \in YScales, f \in Origins}

InitLoad ==
    /\ AnalyzeIdle
    /\ RasterIdle
    /\ TilesIdle
    /\ ColormapIdle
    /\ SamplesIdle
    /\ GridIdle
    /\ RunsIdle
    /\ ConfigIdle
    /\ SourceIdle
    /\ TaskIdle
    /\ src_raster \in SourceRasters
    /\ loaded = NoneRec

LoadRaster ==
    /\ loaded = NoneRec
    /\ loaded' = _load_raster_data_webmercator(src_raster)
    /\ UNCHANGED <<src_raster, analyzeVars, rasterVars, tileVars, colorVars,
                   sampleVars, gridVars, runVars, configVars, sourceVars,
                   taskVars>>

NextLoad == LoadRaster

SpecLoad == InitLoad /\ [][NextLoad]_vars

(***************************************************************************)
(* Claims on the loaded raster.                                            *)
(***************************************************************************)
\* the two y coordinates between which pixel row r (1-based) lies
RowEdges(t, r) == {t.f + t.e * (r - 1), t.f + t.e * r}

\* the extent of the rows along y
Extent(t, height) == {t.f, t.f + t.e * height}

\* the extent of the columns along x
ExtentX(t, width) == {t.c, t.c + t.a * width}

SetMin(S) == CHOOSE x \in S : \A y \in S : x <= y
SetMax(S) == CHOOSE x \in S : \A y \in S : x >= y

\* C25: the returned transform has a non-positive vertical scale; every
\* pixel row of the raster read from the file is, with its value, a row of
\* the returned raster lying between the same two y coordinates; and the
\* returned bounds are the extent the raster had when read, with west < east
\* and south < north.
C25_NorthUpSameLocations ==
    loaded # NoneRec =>
        LET src == src_raster
            height == Len(src.data)
        IN  /\ loaded.transform.e <= 0
            /\ Len(loaded.data) = height
            /\ \A r \in 1..height : \E q \in 1..height :
                    /\ RowEdges(loaded.transform, q) = RowEdges(src.transform, r)
                    /\ loaded.data[q] = src.data[r]
            /\ loaded.bounds[2] = SetMin(Extent(src.transform, height))
            /\ loaded.bounds[4] = SetMax(Extent(src.transform, height))
            /\ loaded.bounds[1] = SetMin(ExtentX(src.transform, src.width))
            /\ loaded.bounds[3] = SetMax(ExtentX(src.transform, src.width))
            /\ loaded.bounds[1] < loaded.bounds[3]
            /\ loaded.bounds[2] < loaded.bounds[4]

\* a raster with a positive vertical scale and rows of different values has
\* been loaded, and its rows were reversed
C25_Witness ==
    /\ loaded # NoneRec
    /\ src_raster.transform.e > 0
    /\ Len(src_raster.data) = MaxRows
    /\ src_raster.data[1] # src_raster.data[MaxRows]
    /\ loaded.data # src_raster.data

(***************************************************************************)
(* Claims on the waits of the sub-tile retry loop.                         *)
(***************************************************************************)
\* attempts of the retry loop at hand that failed and were not the last one
Retried ==
    {k \in DOMAIN attempts_log :
        attempts_log[k] \in RetryableErrors /\ k < max_retries}

\* C27: the retry loop sleeps once after every failed attempt but the last
\* one and never after a success; the wait after attempt k is 10*k seconds
\* for a read timeout and 5*k seconds for another request failure, neither
\* above 120, so the wait of the other failure is the shorter of the two.
C27_LinearCappedBackoff ==
    /\ DOMAIN sleeps = Retried
    /\ \A k \in DOMAIN sleeps :
        /\ sleeps[k] <= 120
        /\ attempts_log[k] = "ReadTimeout" => sleeps[k] = 10 * k
        /\ attempts_log[k] = "RequestException" =>
                /\ sleeps[k] = 5 * k
                /\ sleeps[k] < backoff("ReadTimeout", k)

\* a sub-tile failed once with a read timeout and once with another request
\* failure, was slept for each, and then arrived
C27_Witness ==
    /\ attempts_log = <<"ReadTimeout", "RequestException", "ok">>
    /\ sleeps = <<10, 10>>

(***************************************************************************)
(* Claims on the raster the tiles are rendered from.                       *)
(***************************************************************************)
\* C29: whatever calls were made before for the area and period,
\* generate_tiles renders the raster the generate_geotiff call before it
\* produced.
C29_TilesFromLatestRaster ==
    tiles_from # NoneRec => tiles_from.file.call = tiles_from.run

\* the second call downloaded its mosaic and the tiles were rendered from the
\* sidecar the first call's sampling fallback left
C29_StaleSidecar ==
    /\ tiles_from # NoneRec
    /\ tiles_from.run = 2
    /\ tif = File("mosaic", 2)
    /\ tiles_from.file = File("sampled", 1)

(***************************************************************************)
(* tasks.py: generate_erosion_map_task, one task after the other in one    *)
(* worker process.  ErosionRasterGenerator.__init__ takes storage_path     *)
(* only (raster_generator.py line 25), so the call of line 138, which      *)
(* passes rusle_config, raises TypeError and the statements after it are   *)
(* not reached.                                                            *)
(***************************************************************************)
MaxTasks == 2

\* config_overrides as the caller passes it
OverrideKinds == {"none", "mapping", "malformed"}

\* the keyword parameters of ErosionRasterGenerator.__init__
init_parameters == {"storage_path"}

\* a call with these keywords raises TypeError
RejectsKeywords(keywords) == keywords \ init_parameters # {}

\* the names the payload of the task-failed callback reads, lines 276-295
failure_payload_names == {"metadata", "rusle_config"}

\* the progress values of the update_state calls, in program order
ProgressSteps == <<0, 5, 20, 60, 90>>

Post(path, ok) == [path |-> path, ok |-> ok]

InitTask ==
    /\ AnalyzeIdle
    /\ RasterIdle
    /\ TilesIdle
    /\ ColormapIdle
    /\ SamplesIdle
    /\ GridIdle
    /\ RunsIdle
    /\ ConfigIdle
    /\ LoadIdle
    /\ SourceIdle
    /\ task_no = 0
    /\ task_pc = "idle"
    /\ task_args = None
    /\ gee_initialized \in BOOLEAN
    /\ bound_names = {}
    /\ progress = <<>>
    /\ posts = <<>>
    /\ task_error = None
    /\ task_raised = None

taskFrame == <<analyzeVars, rasterVars, tileVars, colorVars, sampleVars,
               gridVars, runVars, configVars, loadVars, sourceVars>>

\* the worker takes a task off the queue; lines 70-76
TaskBegins ==
    /\ task_pc \in {"idle", "raised"}
    /\ task_no < MaxTasks
    /\ task_no' = task_no + 1
    /\ task_args' \in OverrideKinds
    /\ task_pc' = "started_callback"
    /\ bound_names' = {"end_year", "period_label", "tile_path_key"}
    /\ progress' = <<>>
    /\ posts' = <<>>
    /\ task_error' = None
    /\ task_raised' = None
    /\ UNCHANGED <<gee_initialized, taskFrame>>

\* what leaves the try block: the outer except clause catches it, line 267
Caught(err) ==
    /\ task_error' = err
    /\ task_pc' = "failed"

\* lines 79-102: the task-started callback, whose failure is logged
StartedCallback ==
    /\ task_pc = "started_callback"
    /\ \E ok \in BOOLEAN :
            posts' = Append(posts, Post("task-started", ok))
    /\ task_pc' = "initializing"
    /\ UNCHANGED <<task_no, task_args, gee_initialized, bound_names, progress,
                   task_error, task_raised, taskFrame>>

\* lines 105-122: progress 0, then progress 5
ReportInitializing ==
    /\ task_pc = "initializing"
    /\ progress' = progress \o <<0, 5>>
    /\ task_pc' = "gee"
    /\ UNCHANGED <<task_no, task_args, gee_initialized, bound_names, posts,
                   task_error, task_raised, taskFrame>>

\* lines 124-132: Earth Engine is initialized unless it already is, then
\* progress 20
GeeReady ==
    /\ task_pc = "gee"
    /\ gee_initialized' = TRUE
    /\ progress' = Append(progress, 20)
    /\ task_pc' = "raster"
    /\ UNCHANGED <<task_no, task_args, bound_names, posts, task_error,
                   task_raised, taskFrame>>

\* line 126: gee_service.initialize() raises
GeeInitFails ==
    /\ task_pc = "gee"
    /\ ~gee_initialized
    /\ Caught("GEEInitError")
    /\ UNCHANGED <<task_no, task_args, gee_initialized, bound_names, progress,
                   posts, task_raised, taskFrame>>

\* line 135: build_config walks overrides.items(), which something that is
\* no mapping does not have
BuildConfigFails ==
    /\ task_pc = "raster"
    /\ task_args = "malformed"
    /\ Caught("AttributeError")
    /\ UNCHANGED <<task_no, task_args, gee_initialized, bound_names, progress,
                   posts, task_raised, taskFrame>>

\* lines 135-138: rusle_config is built, and the constructor is called with
\* a keyword it does not take
ConstructRasterGenerator ==
    /\ task_pc = "raster"
    /\ task_args # "malformed"
    /\ RejectsKeywords({"rusle_config"})
    /\ bound_names' = bound_names \cup {"rusle_config"}
    /\ Caught("TypeError")
    /\ UNCHANGED <<task_no, task_args, gee_initialized, progress, posts,
                   task_raised, taskFrame>>

\* lines 267-301: the payload of the task-failed callback is put together
\* and posted; a NameError for a local that was never assigned, like a
\* failure of the request, is logged
NotifyFailure ==
    /\ task_pc = "failed"
    /\ IF failure_payload_names \subseteq bound_names
       THEN \E ok \in BOOLEAN : posts' = Append(posts, Post("task-failed", ok))
       ELSE UNCHANGED posts
    /\ task_pc' = "notified"
    /\ UNCHANGED <<task_no, task_args, gee_initialized, bound_names, progress,
                   task_error, task_raised, taskFrame>>

\* line 303: the bare raise
Reraise ==
    /\ task_pc = "notified"
    /\ task_raised' = task_error
    /\ task_pc' = "raised"
    /\ UNCHANGED <<task_no, task_args, gee_initialized, bound_names, progress,
                   posts, task_error, taskFrame>>

NextTask ==
    \/ TaskBegins
    \/ StartedCallback
    \/ ReportInitializing
    \/ GeeReady
    \/ GeeInitFails
    \/ BuildConfigFails
    \/ ConstructRasterGenerator
    \/ NotifyFailure
    \/ Reraise

SpecTask == InitTask /\ [][NextTask]_vars

(***************************************************************************)
(* Claims on the task.                                                     *)
(***************************************************************************)
IsPrefix(p, q) == Len(p) <= Len(q) /\ \A j \in DOMAIN p : p[j] = q[j]

Posted(path) == \E j \in DOMAIN posts : posts[j].path = path

\* C30: whatever the outcome of the callbacks, the error that ended the task
\* leaves it as it was caught, after the task-failed callback was sent, and
\* the progress reported so far is 0, 5, 20, 60, 90 up to some point.
C30_CallbacksNeverDecideOutcome ==
    /\ IsPrefix(progress, ProgressSteps)
    /\ task_pc = "raised" =>
            /\ task_error # None
            /\ task_raised = task_error
            /\ Posted("task-failed")

\* the same without the sending of the task-failed callback
C30_ReraisedAsCaught ==
    /\ IsPrefix(progress, ProgressSteps)
    /\ task_pc = "raised" => (task_error # None /\ task_raised = task_error)
    /\ \A j \in DOMAIN posts : posts[j].path = "task-started"

====
